---------------------------- MODULE Spec2Model ----------------------------
(***************************************************************************)
(* A model of the line-follower core: the segment and closed-path geometry *)
(* (linefollower_core/src/geometry), the RK4 integrator and the robot       *)
(* simulation with its PID controller (linefollower_core/src/simulation).  *)
(*                                                                         *)
(* Scalars.  The program computes in IEEE floating point (f64).  A scalar  *)
(* is modelled as a fixed-point number: the integer n stands for n/SCALE.  *)
(* The non-finite values are kept: PInf, NInf (= -PInf) and NaN, with the   *)
(* IEEE rules for them (x/0, inf-inf, 0*inf, comparisons with NaN false).  *)
(* A finite result whose magnitude reaches PInf overflows to an infinity,  *)
(* as an f64 does at its own largest magnitude.  Results are truncated to  *)
(* the grid of 1/SCALE (the model's rounding).                              *)
(***************************************************************************)
EXTENDS Integers, Sequences, FiniteSets, TLC

\* ------------------------------------------------------------------------
\* The scalar type (trait Float, implemented by f32 and f64)
\* ------------------------------------------------------------------------

\* one unit in the last place of 1.0 is 1/SCALE
SCALE == 10000
\* +infinity; every finite scalar n satisfies -PInf < n < PInf
PInf == 1000000000
NInf == -PInf
\* the not-a-number value
NaN == 2000000000
\* largest integer part of a finite scalar
MaxMag == PInf \div SCALE

\* the value of e, computed once and named by the parameter of F
Let(e, F(_)) == CHOOSE r \in {F(v) : v \in {e}} : TRUE

IsNaN(a) == a = NaN
IsFin(a) == a > NInf /\ a < PInf
IsInf(a) == a = PInf \/ a = NInf

Abs(n) == IF n < 0 THEN -n ELSE n
Sgn(n) == IF n < 0 THEN -1 ELSE IF n > 0 THEN 1 ELSE 0
\* overflow of a finite result to an infinity
Sat(n) == IF n >= PInf THEN PInf ELSE IF n <= NInf THEN NInf ELSE n

\* the scalar with integer value n
Num(n) == n * SCALE

FNeg(a) == IF IsNaN(a) THEN NaN ELSE -a

FAdd(a, b) ==
  IF IsNaN(a) \/ IsNaN(b) THEN NaN
  ELSE IF IsInf(a) THEN (IF IsInf(b) /\ a # b THEN NaN ELSE a)
  ELSE IF IsInf(b) THEN b
  ELSE Sat(a + b)

FSub(a, b) == FAdd(a, FNeg(b))

\* product of two finite magnitudes, truncated; PInf on overflow
MulMag(x, y) ==
  LET xh == x \div SCALE
      xl == x % SCALE
      yh == y \div SCALE
      yl == y % SCALE
  IN IF xh > 0 /\ yh > MaxMag \div xh THEN PInf
     ELSE LET t1 == xh * yh * SCALE
              t2 == Sat(t1 + xh * yl)
              t3 == IF t2 = PInf THEN PInf ELSE Sat(t2 + xl * yh)
          IN IF t1 >= PInf THEN PInf
             ELSE IF t3 = PInf THEN PInf
             ELSE Sat(t3 + (xl * yl) \div SCALE)

FMul(a, b) ==
  IF IsNaN(a) \/ IsNaN(b) THEN NaN
  ELSE IF IsInf(a) \/ IsInf(b)
       THEN (IF a = 0 \/ b = 0 THEN NaN
             ELSE IF Sgn(a) * Sgn(b) > 0 THEN PInf ELSE NInf)
  ELSE Sgn(a) * Sgn(b) * MulMag(Abs(a), Abs(b))

\* the four decimal digits of r/y after the point (0 <= r < y), truncated
DivFrac(r, y) ==
  IF y > 200000000 THEN r \div (y \div SCALE)
  ELSE LET d1 == (r * 10) \div y
           r1 == (r * 10) % y
           d2 == (r1 * 10) \div y
           r2 == (r1 * 10) % y
           d3 == (r2 * 10) \div y
           r3 == (r2 * 10) % y
           d4 == (r3 * 10) \div y
       IN d1 * 1000 + d2 * 100 + d3 * 10 + d4

\* quotient of two finite magnitudes (y > 0), truncated; PInf on overflow
DivMag(x, y) ==
  LET q == x \div y
  IN IF q >= MaxMag THEN PInf ELSE Sat(q * SCALE + DivFrac(x % y, y))

FDiv(a, b) ==
  IF IsNaN(a) \/ IsNaN(b) THEN NaN
  ELSE IF IsInf(a)
       THEN (IF IsInf(b) THEN NaN
             ELSE IF Sgn(a) * (IF b < 0 THEN -1 ELSE 1) > 0 THEN PInf ELSE NInf)
  ELSE IF IsInf(b) THEN 0
  ELSE IF b = 0
       THEN (IF a = 0 THEN NaN ELSE IF a > 0 THEN PInf ELSE NInf)
  ELSE Sgn(a) * Sgn(b) * DivMag(Abs(a), Abs(b))

\* the remainder operator % of the floats: the sign of the dividend
FMod(a, b) ==
  IF IsNaN(a) \/ IsNaN(b) \/ IsInf(a) \/ b = 0 THEN NaN
  ELSE IF IsInf(b) THEN a
  ELSE Sgn(a) * (Abs(a) % Abs(b))

\* comparisons: every comparison with NaN is false
FLt(a, b) == ~IsNaN(a) /\ ~IsNaN(b) /\ a < b
FLe(a, b) == ~IsNaN(a) /\ ~IsNaN(b) /\ a <= b
FGt(a, b) == FLt(b, a)
FGe(a, b) == FLe(b, a)
FEq(a, b) == ~IsNaN(a) /\ ~IsNaN(b) /\ a = b
FNe(a, b) == ~FEq(a, b)

FAbs(a) == IF IsNaN(a) THEN NaN ELSE Abs(a)
\* num::Float::signum: 1.0 for positive numbers and +0.0, -1.0 for negative, NaN for NaN
FSignum(a) == IF IsNaN(a) THEN NaN ELSE IF a < 0 THEN Num(-1) ELSE Num(1)
\* num::Float::min: the other operand when one is NaN
FMin(a, b) == IF IsNaN(a) THEN b ELSE IF IsNaN(b) THEN a ELSE IF a < b THEN a ELSE b

\* partial_cmp: "none" when an operand is NaN
PartialCmp(a, b) ==
  IF IsNaN(a) \/ IsNaN(b) THEN "none"
  ELSE IF a < b THEN "less" ELSE IF a > b THEN "greater" ELSE "equal"

RECURSIVE ISqrtIn(_, _, _)
\* the largest s in lo..hi with s*s <= n (lo*lo <= n < (hi+1)*(hi+1))
ISqrtIn(n, lo, hi) ==
  IF lo >= hi THEN lo
  ELSE LET mid == (lo + hi + 1) \div 2
       IN IF mid * mid <= n THEN ISqrtIn(n, mid, hi) ELSE ISqrtIn(n, lo, mid - 1)

\* one more decimal digit of a square root: s the root so far, rem the remainder
SqrtDigit(s, rem) ==
  LET R == rem * 100
      d == CHOOSE k \in 0..9 :
             /\ (20 * s + k) * k <= R
             /\ (k = 9 \/ (20 * s + k + 1) * (k + 1) > R)
  IN <<10 * s + d, R - (20 * s + d) * d>>

FSqrt(a) ==
  IF IsNaN(a) \/ a < 0 THEN NaN
  ELSE IF a = PInf THEN PInf
  ELSE Let(ISqrtIn(a, 0, 31622), LAMBDA s0 :
       Let(SqrtDigit(s0, a - s0 * s0), LAMBDA st1 :
       SqrtDigit(st1[1], st1[2])[1]))

\* std::f64::consts::PI
PI == 31416
TWO_PI == 2 * PI
HALF_PI == PI \div 2

\* sine on [0, PI] (Bhaskara's rational approximation of the library function)
SinHalf(y) ==
  LET p == FMul(y, PI - y)
  IN FDiv(16 * p, FSub(5 * FMul(PI, PI), 4 * p))

Sin(x) ==
  IF ~IsFin(x) THEN NaN
  ELSE LET m == x % TWO_PI
       IN IF m <= PI THEN SinHalf(m) ELSE -SinHalf(m - PI)

Cos(x) == IF ~IsFin(x) THEN NaN ELSE Sin((x % TWO_PI) + HALF_PI)

RECURSIVE AcosIn(_, _, _)
\* the largest angle a in lo..hi with Cos(a) >= c (Cos falls on [0, PI])
AcosIn(c, lo, hi) ==
  IF lo >= hi THEN lo
  ELSE Let((lo + hi + 1) \div 2, LAMBDA mid :
         IF Cos(mid) >= c THEN AcosIn(c, mid, hi) ELSE AcosIn(c, lo, mid - 1))

\* arc cosine, the inverse of Cos on [0, PI]
FAcos(c) ==
  IF IsNaN(c) \/ c > Num(1) \/ c < Num(-1) THEN NaN ELSE AcosIn(c, 0, PI)

\* clamp(lo, hi): NaN stays NaN
FClamp(a, lo, hi) == IF IsNaN(a) THEN NaN ELSE IF a < lo THEN lo ELSE IF a > hi THEN hi ELSE a

\* ------------------------------------------------------------------------
\* Points and vectors (nalgebra Point2 / Vector2)
\* ------------------------------------------------------------------------

Pt(x, y) == [x |-> x, y |-> y]
\* a point or vector with integer coordinates
IPt(x, y) == Pt(Num(x), Num(y))

VAdd(a, b) == Pt(FAdd(a.x, b.x), FAdd(a.y, b.y))
VSub(a, b) == Pt(FSub(a.x, b.x), FSub(a.y, b.y))
VScale(a, k) == Pt(FMul(a.x, k), FMul(a.y, k))
VDivS(a, k) == Pt(FDiv(a.x, k), FDiv(a.y, k))
VNeg(a) == Pt(FNeg(a.x), FNeg(a.y))
Dot(a, b) == FAdd(FMul(a.x, b.x), FMul(a.y, b.y))
Norm(a) == FSqrt(FAdd(FMul(a.x, a.x), FMul(a.y, a.y)))
\* nalgebra::distance
distance(a, b) == Norm(VSub(a, b))
\* nalgebra::distance_squared
distance_squared(a, b) == LET d == VSub(a, b) IN Dot(d, d)
PtFinite(p) == IsFin(p.x) /\ IsFin(p.y)
\* nalgebra's angle between two vectors: in [0, PI], 0 when one of them is zero
VAngle(a, b) ==
  Let(Norm(a), LAMBDA n1 :
  Let(Norm(b), LAMBDA n2 :
    IF n1 = 0 \/ n2 = 0 THEN 0
    ELSE FAcos(FClamp(FDiv(Dot(a, b), FMul(n1, n2)), Num(-1), Num(1)))))

cross(a, b) == FSub(FMul(a.x, b.y), FMul(a.y, b.x))


\* ------------------------------------------------------------------------
\* LinePath
\* ------------------------------------------------------------------------

\* LinePath::new asserting that the length is not negative
LinePathNewPanicsNegative(p0, p1) == FLt(distance(p0, p1), 0)

\* LinePath::new aborts (assert!) exactly when this holds
LinePathNewPanics(p0, p1) == ~FNe(distance(p0, p1), 0)

\* LinePath::new, when it does not abort
LinePathNew(p0, p1) ==
  LET length == distance(p0, p1)
  IN [kind |-> "Line", p0 |-> p0, p1 |-> p1, length |-> length,
      v |-> VDivS(VSub(p1, p0), length)]

\* the macro new_line_path![x0, y0, x1, y1], on integer coordinates
new_line_path(x0, y0, x1, y1) == LinePathNew(IPt(x0, y0), IPt(x1, y1))

\* LineSdf with the operands of the cross product exchanged
LineSdfSwapped(l, p) ==
  LET u == VSub(p, l.p0)
      v == VSub(l.p1, l.p0)
      signed_dist == FDiv(cross(v, u), l.length)
      dot == Dot(u, l.v)
  IN IF ~(FGe(dot, 0) /\ FLe(dot, l.length))
     THEN FMul(FSignum(signed_dist), FMin(distance(p, l.p0), distance(p, l.p1)))
     ELSE signed_dist

\* LineSdf without the fall-back to the nearer endpoint
LineSdfPerpendicular(l, p) ==
  LET u == VSub(p, l.p0)
      v == VSub(l.p1, l.p0)
  IN FDiv(cross(u, v), l.length)

LineSdf(l, p) ==
  LET u == VSub(p, l.p0)
      v == VSub(l.p1, l.p0)
      signed_dist == FDiv(cross(u, v), l.length)
      dot == Dot(u, l.v)
  IN IF ~(FGe(dot, 0) /\ FLe(dot, l.length))
     THEN FMul(FSignum(signed_dist), FMin(distance(p, l.p0), distance(p, l.p1)))
     ELSE signed_dist

LinePointAt(l, d) == VAdd(l.p0, VScale(l.v, d))

LineTangentAt(l, d) == VDivS(VSub(l.p1, l.p0), l.length)

LinePointProjectionDistance(l, p) == Dot(VSub(p, l.p0), l.v)

\* ------------------------------------------------------------------------
\* ArcPath
\* ------------------------------------------------------------------------

\* ArcPath::new aborts (assert!) exactly when this holds
ArcPathNewPanics(center, r, theta0, theta1) == ~FNe(FSub(theta1, theta0), 0)

\* ArcPath::new, when it does not abort
ArcPathNew(center, r, theta0, theta1) ==
  LET delta_t == FSub(theta1, theta0)
      v0 == Pt(Cos(theta0), Sin(theta0))
      v1 == Pt(Cos(theta1), Sin(theta1))
  IN [kind |-> "Arc", center |-> center, r |-> r,
      theta0 |-> theta0, theta1 |-> theta1,
      p0 |-> VAdd(center, VScale(v0, r)), v0 |-> v0, v1 |-> v1,
      counterclockwise |-> FGt(delta_t, 0),
      length |-> FMul(r, FAbs(delta_t))]

\* the macro new_arc_path![cx, cy, r, theta0, theta1], on an integer center and radius
new_arc_path(cx, cy, r, theta0, theta1) ==
  ArcPathNew(IPt(cx, cy), Num(r), theta0, theta1)

within_bounds(a, p) ==
  LET v == VSub(p, a.center)
      ord0 == cross(a.v0, v)
      ord1 == cross(v, a.v1)
  IN IF a.counterclockwise
     THEN FGe(ord0, 0) /\ FGe(ord1, 0)
     ELSE FLe(ord0, 0) /\ FLe(ord1, 0)

ArcSdf(a, p) ==
  IF ~within_bounds(a, p) THEN PInf
  ELSE LET signed_dist == FSub(distance(p, a.center), a.r)
       IN IF ~a.counterclockwise THEN FNeg(signed_dist) ELSE signed_dist

\* the angle reached when every arc is run counterclockwise
ArcAngleAtCcw(a, d) == FAdd(a.theta0, FDiv(d, a.r))

\* the angle theta0 +- d/r reached after the arclength d
ArcAngleAt(a, d) ==
  FAdd(a.theta0, IF a.counterclockwise THEN FDiv(d, a.r) ELSE FDiv(FNeg(d), a.r))

ArcPointAt(a, d) ==
  LET t == ArcAngleAt(a, d)
  IN VAdd(a.center, VScale(Pt(Cos(t), Sin(t)), a.r))

ArcTangentAt(a, d) ==
  LET t == ArcAngleAt(a, d)
      v == Pt(FNeg(Sin(t)), Cos(t))
  IN IF a.counterclockwise THEN v ELSE VNeg(v)

ArcPointProjectionDistance(a, p) == FMul(a.r, VAngle(VSub(p, a.center), a.v0))

\* ------------------------------------------------------------------------
\* SubPath: the sum of the two segment kinds, and the Track trait on it
\* ------------------------------------------------------------------------

SegSdf(s, p) == IF s.kind = "Arc" THEN ArcSdf(s, p) ELSE LineSdf(s, p)

SegLength(s) == s.length

SegPointAt(s, d) == IF s.kind = "Arc" THEN ArcPointAt(s, d) ELSE LinePointAt(s, d)

SegTangentAt(s, d) ==
  IF s.kind = "Arc" THEN ArcTangentAt(s, d) ELSE LineTangentAt(s, d)

SegPointProjectionDistance(s, p) ==
  IF s.kind = "Arc" THEN ArcPointProjectionDistance(s, p)
  ELSE LinePointProjectionDistance(s, p)

\* point_projection_tangent: the trait's default, tangent_at of the projection
\* distance; the enum does not forward the overrides of the two kinds
SegPointProjectionTangent(s, p) == SegTangentAt(s, SegPointProjectionDistance(s, p))

\* first_point: the trait's default, point_at(0); the enum does not forward the
\* overrides of the two kinds
SegFirstPoint(s) == SegPointAt(s, 0)

\* last_point: the trait's default, point_at(length())
SegLastPoint(s) == SegPointAt(s, SegLength(s))

\* ------------------------------------------------------------------------
\* ClosedPath
\* ------------------------------------------------------------------------

\* F::epsilon(): the distance from 1.0 to the next scalar
machine_epsilon == 1
\* the tolerance of the validity check: F::epsilon() * 100
epsilon == FMul(machine_epsilon, Num(100))

RECURSIVE ValidFrom(_, _, _)
\* the loop of is_valid_closed_path from segment i on, prev the last point so far
ValidFrom(subpaths, i, prev) ==
  IF i > Len(subpaths)
  THEN ~FGt(Norm(VSub(SegFirstPoint(subpaths[1]), prev)), epsilon)
  ELSE IF FGt(Norm(VSub(SegFirstPoint(subpaths[i]), prev)), epsilon) THEN FALSE
  ELSE ValidFrom(subpaths, i + 1, SegLastPoint(subpaths[i]))

is_valid_closed_path(subpaths) ==
  IF Len(subpaths) < 2 THEN FALSE
  ELSE ValidFrom(subpaths, 2, SegLastPoint(subpaths[1]))

RECURSIVE ScanStarts(_, _, _)
\* the scan of ClosedPath::new: each segment's start is the sum of the lengths before it
ScanStarts(subpaths, i, state) ==
  IF i > Len(subpaths) THEN <<>>
  ELSE <<state>> \o ScanStarts(subpaths, i + 1, FAdd(state, SegLength(subpaths[i])))

\* ClosedPath::new past its debug assertion, on a non-empty list
ClosedPathFields(subpaths) ==
  LET starts == ScanStarts(subpaths, 1, 0)
      n == Len(subpaths)
  IN [p0 |-> SegPointAt(subpaths[1], 0),
      subpaths |-> subpaths,
      starts |-> starts,
      length |-> FAdd(starts[n], SegLength(subpaths[n]))]

\* ClosedPath::new aborts exactly when this holds: the debug assertion in a debug
\* build, and unwrap() of last() on an empty list in every build
ClosedPathNewPanics(debug, subpaths) ==
  \/ debug /\ ~is_valid_closed_path(subpaths)
  \/ Len(subpaths) = 0

RECURSIVE PartitionPoint(_, _, _)
\* starts.partition_point(|x| x < d): the number of leading elements below d
PartitionPoint(starts, i, d) ==
  IF i > Len(starts) \/ ~FLt(starts[i], d) THEN i - 1
  ELSE PartitionPoint(starts, i + 1, d)

\* first_subpath_dist without the reduction of d modulo the length
first_subpath_dist_unreduced(path, d) ==
  LET pp == PartitionPoint(path.starts, 1, d)
      i == IF pp = 0 THEN 1 ELSE pp
  IN [x |-> FSub(d, path.starts[i]), i |-> i]

\* first_subpath_dist: the segment's index (from 1) and the offset into it
first_subpath_dist(path, d) ==
  LET dm == FMod(d, path.length)
      pp == PartitionPoint(path.starts, 1, dm)
      i == IF pp = 0 THEN 1 ELSE pp
  IN [x |-> FSub(dm, path.starts[i]), i |-> i]

RECURSIVE MinByFrom(_, _, _)
\* Iterator::min_by over keys[i..], best the index kept so far: a later element
\* replaces it only when the comparison says Greater; unwrap() of a partial_cmp
\* that is None aborts (index 0)
MinByFrom(keys, i, best) ==
  IF i > Len(keys) THEN best
  ELSE LET c == PartialCmp(keys[best], keys[i])
       IN IF c = "none" THEN 0
          ELSE MinByFrom(keys, i + 1, IF c = "greater" THEN i ELSE best)

RECURSIVE MaxByFrom(_, _, _)
\* Iterator::max_by in place of min_by: a later element replaces the one kept
\* unless the comparison says Greater
MaxByFrom(keys, i, best) ==
  IF i > Len(keys) THEN best
  ELSE LET c == PartialCmp(keys[best], keys[i])
       IN IF c = "none" THEN 0
          ELSE MaxByFrom(keys, i + 1, IF c = "greater" THEN best ELSE i)

MaxBy(keys) == IF Len(keys) = 0 THEN 0 ELSE MaxByFrom(keys, 2, 1)

\* the index min_by returns over the keys, 0 when it aborts or the list is empty
MinBy(keys) == IF Len(keys) = 0 THEN 0 ELSE MinByFrom(keys, 2, 1)

\* every segment's signed distance to p
SegSdfs(path, p) == [i \in 1..Len(path.subpaths) |-> SegSdf(path.subpaths[i], p)]

AbsAll(vals) == [i \in 1..Len(vals) |-> FAbs(vals[i])]

\* ClosedPath::sdf aborts exactly when this holds
ClosedPathSdfPanics(path, p) == MinBy(AbsAll(SegSdfs(path, p))) = 0

\* ClosedPath::sdf, when it does not abort
ClosedPathSdf(path, p) ==
  Let(SegSdfs(path, p), LAMBDA vals : vals[MinBy(AbsAll(vals))])

RECURSIVE MinByLastFrom(_, _, _)
\* a min_by that keeps the last of several equal minima
MinByLastFrom(keys, i, best) ==
  IF i > Len(keys) THEN best
  ELSE LET c == PartialCmp(keys[best], keys[i])
       IN IF c = "none" THEN 0
          ELSE MinByLastFrom(keys, i + 1, IF c = "less" THEN best ELSE i)

\* closest_subpath keeping the last of several equally close segments
closest_subpath_last(path, p) ==
  Let(AbsAll(SegSdfs(path, p)), LAMBDA keys :
    IF Len(keys) = 0 THEN 0 ELSE MinByLastFrom(keys, 2, 1))

\* closest_subpath: the index of the segment min_by keeps, 0 when it aborts
closest_subpath(path, p) == MinBy(AbsAll(SegSdfs(path, p)))

\* point_projection_tangent, when closest_subpath does not abort
ClosedPathPointProjectionTangent(path, p) ==
  SegPointProjectionTangent(path.subpaths[closest_subpath(path, p)], p)

\* the 11 segments of predefined_closed_path
predefined_subpaths ==
  << new_line_path(0, -4, 8, -4),
     new_line_path(8, -4, 8, -9),
     new_arc_path(7, -9, 1, 0, FDiv(FNeg(PI), Num(2))),
     new_line_path(7, -10, 3, -10),
     new_arc_path(3, -11, 1, FDiv(PI, Num(2)), FDiv(FMul(Num(3), PI), Num(2))),
     new_line_path(3, -12, 8, -12),
     new_arc_path(8, -10, 2, FDiv(FNeg(PI), Num(2)), 0),
     new_line_path(10, -10, 10, -2),
     new_arc_path(8, -2, 2, 0, FDiv(PI, Num(2))),
     new_line_path(8, 0, 0, 0),
     new_arc_path(0, -2, 2, FDiv(PI, Num(2)), FDiv(FMul(Num(3), PI), Num(2))) >>

ClosedPathLength(path) == path.length

ClosedPathFirstPoint(path) == path.p0

ClosedPathPointAt(path, d) ==
  LET f == first_subpath_dist(path, d)
  IN SegPointAt(path.subpaths[f.i], f.x)

ClosedPathTangentAt(path, d) ==
  LET f == first_subpath_dist(path, d)
  IN SegTangentAt(path.subpaths[f.i], f.x)

\* ------------------------------------------------------------------------
\* Rk4: the fixed-step integrator over state vectors
\* ------------------------------------------------------------------------

NUM_STATES == 7
NUM_CONTROLS == 2

\* vectors are indexed from 1 here and from 0 in the program
VecAdd(a, b) == [i \in DOMAIN a |-> FAdd(a[i], b[i])]
\* k * a
VecScale(k, a) == [i \in DOMAIN a |-> FMul(k, a[i])]
\* a / k
VecDiv(a, k) == [i \in DOMAIN a |-> FDiv(a[i], k)]
VecFinite(a) == \A i \in DOMAIN a : IsFin(a[i])

\* Robot geometry
ROBOT_WHEEL_RADIUS == 400
ROBOT_SIDE_LENGTH == 1000
\* the second-order wheel model
W0 == 200000
XI == 7100
C0 == FDiv(Num(1), FMul(W0, W0))
C1 == FDiv(FMul(Num(2), XI), W0)
C2 == 10000

robot_dynamics(t, x, u) ==
  LET theta == x[3]
      wl == x[4]
      dwl == x[5]
      wr == x[6]
      dwr == x[7]
      ul == u[1]
      ur == u[2]
      speed == FDiv(FMul(ROBOT_WHEEL_RADIUS, FAdd(wl, wr)), Num(2))
      d_theta == FDiv(FMul(ROBOT_WHEEL_RADIUS, FSub(wr, wl)), ROBOT_SIDE_LENGTH)
      d_x == FMul(speed, Cos(theta))
      d_y == FMul(speed, Sin(theta))
      d_dwl == FDiv(FSub(FSub(ul, FMul(C1, dwl)), FMul(C2, wl)), C0)
      d_dwr == FDiv(FSub(FSub(ur, FMul(C1, dwr)), FMul(C2, wr)), C0)
  IN <<d_x, d_y, d_theta, dwl, d_dwl, dwr, d_dwr>>

\* Rk4::new(f, t, x)
Rk4New(t, x) == [t |-> t, x |-> x]

\* Rk4::step weighting the four slopes equally
Rk4StepEqualWeights(sys, dt, u) ==
  LET t == sys.t
      x == sys.x
  IN
  Let(robot_dynamics(t, x, u), LAMBDA k1 :
  Let(robot_dynamics(FAdd(t, FDiv(dt, Num(2))),
                     VecAdd(x, VecDiv(VecScale(dt, k1), Num(2))), u), LAMBDA k2 :
  Let(robot_dynamics(FAdd(t, FDiv(dt, Num(2))),
                     VecAdd(x, VecDiv(VecScale(dt, k2), Num(2))), u), LAMBDA k3 :
  Let(robot_dynamics(FAdd(t, dt), VecAdd(x, VecScale(dt, k3)), u), LAMBDA k4 :
    [t |-> FAdd(t, dt),
     x |-> VecAdd(x, VecDiv(VecScale(dt,
             VecAdd(VecAdd(VecAdd(k1, k2), k3), k4)), Num(4)))]))))

\* the calls of f that Rk4::step(dt, u) makes, in order: the arguments of each
Rk4Calls(sys, dt, u) ==
  LET t == sys.t
      x == sys.x
  IN
  Let(robot_dynamics(t, x, u), LAMBDA k1 :
  Let(VecAdd(x, VecDiv(VecScale(dt, k1), Num(2))), LAMBDA x2 :
  Let(robot_dynamics(FAdd(t, FDiv(dt, Num(2))), x2, u), LAMBDA k2 :
  Let(VecAdd(x, VecDiv(VecScale(dt, k2), Num(2))), LAMBDA x3 :
  Let(robot_dynamics(FAdd(t, FDiv(dt, Num(2))), x3, u), LAMBDA k3 :
    << [t |-> t, x |-> x, u |-> u],
       [t |-> FAdd(t, FDiv(dt, Num(2))), x |-> x2, u |-> u],
       [t |-> FAdd(t, FDiv(dt, Num(2))), x |-> x3, u |-> u],
       [t |-> FAdd(t, dt), x |-> VecAdd(x, VecScale(dt, k3)), u |-> u] >>)))))

\* Rk4::step(dt, u) on the system [t, x] with f = robot_dynamics
Rk4Step(sys, dt, u) ==
  LET t == sys.t
      x == sys.x
  IN
  Let(robot_dynamics(t, x, u), LAMBDA k1 :
  Let(robot_dynamics(FAdd(t, FDiv(dt, Num(2))),
                     VecAdd(x, VecDiv(VecScale(dt, k1), Num(2))), u), LAMBDA k2 :
  Let(robot_dynamics(FAdd(t, FDiv(dt, Num(2))),
                     VecAdd(x, VecDiv(VecScale(dt, k2), Num(2))), u), LAMBDA k3 :
  Let(robot_dynamics(FAdd(t, dt), VecAdd(x, VecScale(dt, k3)), u), LAMBDA k4 :
    [t |-> FAdd(t, dt),
     x |-> VecAdd(x, VecDiv(VecScale(dt,
             VecAdd(VecAdd(VecAdd(k1, VecScale(Num(2), k2)), VecScale(Num(2), k3)), k4)),
             Num(6)))]))))

\* ------------------------------------------------------------------------
\* RobotSimulation
\* ------------------------------------------------------------------------

RobotSimulationNew(x0, kp, ki, kd, speed, path) ==
  [integrator |-> Rk4New(0, x0),
   state |-> x0,
   controls |-> <<0, 0>>,
   path |-> path,
   prev_error |-> 0,
   int_error |-> 0,
   time |-> 0,
   kp |-> kp, ki |-> ki, kd |-> kd, speed |-> speed]

robot_position(s) == Pt(s.state[1], s.state[2])

\* robot_sdf_to_path aborts exactly when the path's sdf does
RobotSdfPanics(s) == ClosedPathSdfPanics(s.path, robot_position(s))

robot_sdf_to_path(s) == ClosedPathSdf(s.path, robot_position(s))

theta_error_estimate(s) == robot_sdf_to_path(s)

get_state(s) == s.state

get_time(s) == s.time

reference_point(s) == ClosedPathPointAt(s.path, FMul(s.speed, get_time(s)))

reference_tangent(s) == ClosedPathTangentAt(s.path, FMul(s.speed, get_time(s)))

\* robot_projection_tangent aborts exactly when closest_subpath does
RobotProjectionTangentPanics(s) == closest_subpath(s.path, robot_position(s)) = 0

robot_projection_tangent(s) == ClosedPathPointProjectionTangent(s.path, robot_position(s))

\* the squared distance between the reference point and the robot
robot_error(s) == distance_squared(reference_point(s), robot_position(s))

\* robot_velocity_reward, when the projection tangent does not abort
robot_velocity_reward(s) ==
  Let(FDiv(FMul(ROBOT_WHEEL_RADIUS, FAdd(s.state[4], s.state[6])), Num(2)), LAMBDA speed :
  Let(robot_projection_tangent(s), LAMBDA vt :
    FAdd(FMul(FMul(speed, Cos(s.state[3])), vt.x),
         FMul(FMul(speed, Sin(s.state[3])), vt.y))))

\* the queries of RobotSimulation (all take &self)
QueryNames ==
  {"theta_error_estimate", "get_state", "get_time", "robot_position",
   "robot_sdf_to_path", "robot_error", "robot_velocity_reward",
   "reference_point", "reference_tangent", "robot_projection_tangent"}

\* the query q aborts on the simulation s
QueryPanics(q, s) ==
  CASE q \in {"theta_error_estimate", "robot_sdf_to_path"} -> RobotSdfPanics(s)
    [] q \in {"robot_velocity_reward", "robot_projection_tangent"} ->
         RobotProjectionTangentPanics(s)
    [] OTHER -> FALSE

\* what the query q returns on the simulation s
QueryValue(q, s) ==
  CASE q = "theta_error_estimate" -> theta_error_estimate(s)
    [] q = "get_state" -> get_state(s)
    [] q = "get_time" -> get_time(s)
    [] q = "robot_position" -> robot_position(s)
    [] q = "robot_sdf_to_path" -> robot_sdf_to_path(s)
    [] q = "robot_error" -> robot_error(s)
    [] q = "robot_velocity_reward" -> robot_velocity_reward(s)
    [] q = "reference_point" -> reference_point(s)
    [] q = "reference_tangent" -> reference_tangent(s)
    [] q = "robot_projection_tangent" -> robot_projection_tangent(s)

\* a query that keeps the signed distance it computed as the previous error
after_query_memo(s, q) ==
  IF q \in {"theta_error_estimate", "robot_sdf_to_path"}
  THEN [s EXCEPT !.prev_error = robot_sdf_to_path(s)]
  ELSE s

\* the simulation after the query q returned: the receiver is &self
after_query(s, q) == s

\* calculate_control with the integral accumulating the current error
calculate_control_nolag(s, dt) ==
  Let(theta_error_estimate(s), LAMBDA error_estimate :
  Let(FDiv(FSub(error_estimate, s.prev_error), dt), LAMBDA deriv_error :
  Let(FAdd(s.int_error, FMul(error_estimate, dt)), LAMBDA int_error :
  Let(FAdd(FAdd(FMul(s.kp, error_estimate), FMul(s.ki, int_error)),
           FMul(s.kd, deriv_error)), LAMBDA desired_dtheta :
  Let(FMul(FDiv(FMul(ROBOT_SIDE_LENGTH, C2), ROBOT_WHEEL_RADIUS), desired_dtheta), LAMBDA v :
  Let(FDiv(FMul(FMul(Num(2), s.speed), C2), ROBOT_WHEEL_RADIUS), LAMBDA um :
    [controls |-> <<FDiv(FSub(um, v), Num(2)), FDiv(FAdd(um, v), Num(2))>>,
     prev_error |-> error_estimate,
     int_error |-> int_error,
     error_estimate |-> error_estimate,
     deriv_error |-> deriv_error]))))))

\* calculate_control(dt), when the error estimate does not abort: the controls
\* it returns, the bookkeeping it leaves in self, and its locals
calculate_control(s, dt) ==
  Let(theta_error_estimate(s), LAMBDA error_estimate :
  Let(FDiv(FSub(error_estimate, s.prev_error), dt), LAMBDA deriv_error :
  Let(FAdd(s.int_error, FMul(s.prev_error, dt)), LAMBDA int_error :
  Let(FAdd(FAdd(FMul(s.kp, error_estimate), FMul(s.ki, int_error)),
           FMul(s.kd, deriv_error)), LAMBDA desired_dtheta :
  Let(FMul(FDiv(FMul(ROBOT_SIDE_LENGTH, C2), ROBOT_WHEEL_RADIUS), desired_dtheta), LAMBDA v :
  Let(FDiv(FMul(FMul(Num(2), s.speed), C2), ROBOT_WHEEL_RADIUS), LAMBDA um :
    [controls |-> <<FDiv(FSub(um, v), Num(2)), FDiv(FAdd(um, v), Num(2))>>,
     prev_error |-> error_estimate,
     int_error |-> int_error,
     error_estimate |-> error_estimate,
     deriv_error |-> deriv_error]))))))

\* step(dt) aborts exactly when this holds
StepPanics(s, dt) == RobotSdfPanics(s)

\* step(dt) with the integrator advanced under the controls of the tick before
SimStepStale(s, dt) ==
  Let(calculate_control(s, dt), LAMBDA c :
  Let(Rk4Step(s.integrator, dt, s.controls), LAMBDA integ :
    [s EXCEPT !.controls = c.controls,
              !.prev_error = c.prev_error,
              !.int_error = c.int_error,
              !.integrator = integ,
              !.state = integ.x,
              !.time = FAdd(s.time, dt)]))

\* step(dt) reading the integrator's state before advancing it
SimStepLaggingState(s, dt) ==
  Let(calculate_control(s, dt), LAMBDA c :
  Let(Rk4Step(s.integrator, dt, c.controls), LAMBDA integ :
    [s EXCEPT !.controls = c.controls,
              !.prev_error = c.prev_error,
              !.int_error = c.int_error,
              !.integrator = integ,
              !.state = s.integrator.x,
              !.time = FAdd(s.time, dt)]))

\* step(dt), when it does not abort
SimStep(s, dt) ==
  Let(calculate_control(s, dt), LAMBDA c :
  Let(Rk4Step(s.integrator, dt, c.controls), LAMBDA integ :
    [s EXCEPT !.controls = c.controls,
              !.prev_error = c.prev_error,
              !.int_error = c.int_error,
              !.integrator = integ,
              !.state = integ.x,
              !.time = FAdd(s.time, dt)]))

\* ------------------------------------------------------------------------
\* RobotOptimizer
\* ------------------------------------------------------------------------

\* RobotOptimizer::new
RobotOptimizerNew(max_iter, dt, path) == [max_iter |-> max_iter, dt |-> dt, path |-> path]

\* the weights and the start state of evaluate_fitness
W0_fitness == 5000
W1_fitness == 9000
x0_fitness == <<0, Num(-4), SCALE \div 10, 0, 0, 0, 0>>

\* evaluate_fitness(kp, ki, kd, speed) up to its loop: the locals of the call
evaluate_fitness_begin(cand, o) ==
  [status |-> "running", cand |-> cand,
   sim |-> RobotSimulationNew(x0_fitness, cand[1], cand[2], cand[3], cand[4], o.path),
   fitness |-> 0, iter |-> 0, terms |-> <<>>, result |-> 0]

\* an iteration of the loop aborts exactly when one of its queries or its step does
fitness_iteration_panics(e) ==
  RobotSdfPanics(e.sim) \/ RobotProjectionTangentPanics(e.sim)

\* an iteration that steps first and reads the three terms afterwards
fitness_iteration_after(es, c, o) ==
  Let(es[c], LAMBDA ev :
  Let(SimStep(ev.sim, o.dt), LAMBDA next :
  Let(robot_error(next), LAMBDA e :
  Let(IF RobotSdfPanics(next) THEN NaN ELSE robot_sdf_to_path(next), LAMBDA sdf :
  Let(IF RobotProjectionTangentPanics(next) THEN NaN
      ELSE robot_velocity_reward(next), LAMBDA ve :
    [ev EXCEPT
       !.fitness = FAdd(ev.fitness,
                        FMul(FSub(FSub(ve, FMul(W0_fitness, e)),
                                  FMul(W1_fitness, FMul(sdf, sdf))), o.dt)),
       !.sim = next,
       !.iter = ev.iter + 1,
       !.terms = Append(ev.terms, [ve |-> ve, e |-> e, sdf |-> sdf])])))))

RECURSIVE SharedIter(_, _)
\* the largest loop counter among the first n evaluations of the batch es
SharedIter(es, n) ==
  IF n = 0 THEN 0
  ELSE IF es[n].iter > SharedIter(es, n - 1) THEN es[n].iter ELSE SharedIter(es, n - 1)

\* an iteration that counts on one loop counter shared by the batch
fitness_iteration_counter(es, c, o) ==
  Let(es[c], LAMBDA ev :
  Let(robot_error(ev.sim), LAMBDA e :
  Let(robot_sdf_to_path(ev.sim), LAMBDA sdf :
  Let(robot_velocity_reward(ev.sim), LAMBDA ve :
    [ev EXCEPT
       !.fitness = FAdd(ev.fitness,
                        FMul(FSub(FSub(ve, FMul(W0_fitness, e)),
                                  FMul(W1_fitness, FMul(sdf, sdf))), o.dt)),
       !.sim = SimStep(ev.sim, o.dt),
       !.iter = SharedIter(es, Len(es)) + 1,
       !.terms = Append(ev.terms, [ve |-> ve, e |-> e, sdf |-> sdf])]))))

RECURSIVE SharedFitness(_, _)
\* the total of the accumulators of the first n evaluations of the batch es
SharedFitness(es, n) ==
  IF n = 0 THEN 0 ELSE FAdd(SharedFitness(es, n - 1), es[n].fitness)

\* an iteration that accumulates into one accumulator shared by the batch
fitness_iteration_shared(es, c, o) ==
  Let(es[c], LAMBDA ev :
  Let(robot_error(ev.sim), LAMBDA e :
  Let(robot_sdf_to_path(ev.sim), LAMBDA sdf :
  Let(robot_velocity_reward(ev.sim), LAMBDA ve :
    [ev EXCEPT
       !.fitness = FAdd(SharedFitness(es, Len(es)),
                        FMul(FSub(FSub(ve, FMul(W0_fitness, e)),
                                  FMul(W1_fitness, FMul(sdf, sdf))), o.dt)),
       !.sim = SimStep(ev.sim, o.dt),
       !.iter = ev.iter + 1,
       !.terms = Append(ev.terms, [ve |-> ve, e |-> e, sdf |-> sdf])]))))

\* one iteration of the loop of evaluate_fitness in evaluation c of the batch
\* es, when it does not abort: the three reads, the accumulation, the step
fitness_iteration(es, c, o) ==
  Let(es[c], LAMBDA ev :
  Let(robot_error(ev.sim), LAMBDA e :
  Let(robot_sdf_to_path(ev.sim), LAMBDA sdf :
  Let(robot_velocity_reward(ev.sim), LAMBDA ve :
    [ev EXCEPT
       !.fitness = FAdd(ev.fitness,
                        FMul(FSub(FSub(ve, FMul(W0_fitness, e)),
                                  FMul(W1_fitness, FMul(sdf, sdf))), o.dt)),
       !.sim = SimStep(ev.sim, o.dt),
       !.iter = ev.iter + 1,
       !.terms = Append(ev.terms, [ve |-> ve, e |-> e, sdf |-> sdf])]))))

\* the loop is over: evaluate_fitness returns the accumulated fitness
evaluate_fitness_end(ev) == [ev EXCEPT !.status = "returned", !.result = ev.fitness]

\* ------------------------------------------------------------------------
\* CurveGraph: the editor's directed graph, nodes are points, edges segments
\* ------------------------------------------------------------------------

\* DiGraph::new(); nodes and edges are indexed from 1 here, from 0 in the program
CurveGraphNew == [nodes |-> <<>>, edges |-> <<>>]

\* The nodes are Point2<f32>.  The spacing of the f32 values is coarser than
\* the tolerance epsilon of the validity check (100 spacings of the f64), and
\* the merge distance sqrt(MIN_DISTANCE_SQR) = 1e-5 is coarser again, while
\* far below the size of a segment.  The scalars here keep that order:
\* epsilon = 0.01 < F32_ULP = 0.02 < merge distance 0.05 < 1.
F32_ULP == 200
\* 1e-10 in the program: the square of the merge distance
MIN_DISTANCE_SQR == 25

\* cast::<f32>() of a scalar: the nearest f32 value, ties to the even one
CastF32(a) ==
  IF ~IsFin(a) THEN a
  ELSE LET q == Abs(a) \div F32_ULP
           r == Abs(a) % F32_ULP
           up == 2 * r > F32_ULP \/ (2 * r = F32_ULP /\ q % 2 = 1)
       IN Sgn(a) * (q + (IF up THEN 1 ELSE 0)) * F32_ULP

\* cast::<f32>() of a point
CastPoint(p) == Pt(CastF32(p.x), CastF32(p.y))

distance_sqr(p0, p1) ==
  FAdd(FMul(FSub(p0.x, p1.x), FSub(p0.x, p1.x)), FMul(FSub(p0.y, p1.y), FSub(p0.y, p1.y)))

RECURSIVE NodeNear(_, _, _, _)
\* the loop of add_subpath over the nodes from i on: the last node within
\* MIN_DISTANCE_SQR of p, found the one so far (0: none)
NodeNear(nodes, i, p, found) ==
  IF i > Len(nodes) THEN found
  ELSE NodeNear(nodes, i + 1, p,
                IF FLe(distance_sqr(nodes[i], p), MIN_DISTANCE_SQR) THEN i ELSE found)

\* add_subpath: both end points are looked up first, then the missing nodes
\* are added, then the edge
add_subpath(g, subpath) ==
  LET p0 == CastPoint(SegFirstPoint(subpath))
      p1 == CastPoint(SegLastPoint(subpath))
      f0 == NodeNear(g.nodes, 1, p0, 0)
      f1 == NodeNear(g.nodes, 1, p1, 0)
      n0 == IF f0 = 0 THEN Append(g.nodes, p0) ELSE g.nodes
      i0 == IF f0 = 0 THEN Len(n0) ELSE f0
      n1 == IF f1 = 0 THEN Append(n0, p1) ELSE n0
      i1 == IF f1 = 0 THEN Len(n1) ELSE f1
  IN [nodes |-> n1,
      edges |-> Append(g.edges, [source |-> i0, target |-> i1, weight |-> subpath])]

\* self.edges(node): the outgoing edges of node
OutEdges(g, node) == {e \in 1..Len(g.edges) : g.edges[e].source = node}

\* valid_track(node_indices) up to its loop
valid_track_begin(node_indices) ==
  IF Len(node_indices) < 2
  THEN [status |-> "none", node_indices |-> node_indices, next_node |-> 0,
        visited |-> {}, subpaths |-> <<>>, walk |-> <<>>]
  ELSE [status |-> "running", node_indices |-> node_indices,
        next_node |-> node_indices[1],
        visited |-> {}, subpaths |-> <<>>, walk |-> <<>>]

\* one iteration of the loop of valid_track; walk is the history of the nodes
\* the iterations were made on
valid_track_iteration(g, v, debug) ==
  LET node == v.next_node
      seen == [v EXCEPT !.visited = v.visited \cup {node}, !.walk = Append(v.walk, node)]
  IN IF Cardinality(OutEdges(g, node)) # 1
     THEN [seen EXCEPT !.status = "none"]
     ELSE LET edge == CHOOSE e \in OutEdges(g, node) : TRUE
              next == g.edges[edge].target
              pushed == Append(v.subpaths, g.edges[edge].weight)
          IN IF ~(\E k \in 1..Len(v.node_indices) : v.node_indices[k] = next)
             THEN [seen EXCEPT !.status = "none", !.next_node = next]
             ELSE IF next = v.node_indices[1]
             THEN IF Cardinality(seen.visited) = Len(v.node_indices)
                  THEN [seen EXCEPT !.status = IF ClosedPathNewPanics(debug, pushed)
                                               THEN "aborted" ELSE "some",
                                    !.next_node = next, !.subpaths = pushed]
                  ELSE [seen EXCEPT !.status = "none", !.next_node = next,
                                    !.subpaths = pushed]
             ELSE [seen EXCEPT !.next_node = next, !.subpaths = pushed]

\* ------------------------------------------------------------------------
\* The editor's drawing tools (path_editor/src/tools)
\* ------------------------------------------------------------------------

\* Pos2::into_point2: F::from_f32 of each coordinate.  A click is a Pos2, its
\* coordinates are f32 values, and every f32 value is an f64 value: the
\* widening changes the type and keeps the number
into_point2(p) == Pt(p.x, p.y)

\* LinePathTool::new()
LinePathToolNew == [kind |-> "LinePath", state |-> "Start", p0 |-> IPt(0, 0)]

\* LinePathTool::on_click aborts exactly when this holds (in LinePath::new)
LineOnClickPanics(t, p) ==
  t.state = "OnePoint" /\ LinePathNewPanics(t.p0, into_point2(p))

\* LinePathTool::on_click: the tool afterwards (also when LinePath::new
\* aborted: the state is assigned before the call)
LineOnClickTool(t, p) ==
  IF t.state = "Start"
  THEN [t EXCEPT !.state = "OnePoint", !.p0 = into_point2(p)]
  ELSE [t EXCEPT !.state = "Start"]

\* LinePathTool::on_click: what it returns when it does not abort, NoSeg for None
LineOnClickReturn(t, p) ==
  IF t.state = "Start" THEN [kind |-> "none"]
  ELSE LinePathNew(t.p0, into_point2(p))

\* ArcPathTool::new()
ArcPathToolNew ==
  [kind |-> "ArcPath", state |-> "Start", counterclockwise |-> TRUE,
   center |-> IPt(0, 0), p0 |-> IPt(0, 0), theta0 |-> 0, r |-> 0]

\* f64::atan2: the angle of (x, y) in (-PI, PI], 0 for the zero vector
Atan2(y, x) ==
  IF IsNaN(x) \/ IsNaN(y) THEN NaN
  ELSE IF y = 0 THEN (IF x >= 0 THEN 0 ELSE PI)
  ELSE Let(FAcos(FClamp(FDiv(x, Norm(Pt(x, y))), Num(-1), Num(1))), LAMBDA a :
         IF y > 0 THEN a ELSE FNeg(a))

\* vector_angle: the angle of v in [0, 2*PI)
vector_angle(v) ==
  Let(Atan2(v.y, v.x), LAMBDA t : IF FLt(t, 0) THEN FAdd(FMul(Num(2), PI), t) ELSE t)

\* correct_angle: theta1 moved by a whole turn to the side of theta0 the
\* orientation asks for
correct_angle(t, theta1) ==
  IF t.counterclockwise
  THEN (IF FLt(theta1, t.theta0) THEN FAdd(theta1, FMul(Num(2), PI)) ELSE theta1)
  ELSE (IF FGt(theta1, t.theta0) THEN FSub(theta1, FMul(Num(2), PI)) ELSE theta1)

\* the end angle the third click gives
ArcClickTheta1(t, p) ==
  correct_angle(t, vector_angle(VSub(into_point2(p), t.center)))

\* ArcPathTool::on_click aborts exactly when this holds (in ArcPath::new)
ArcOnClickPanics(t, p) ==
  t.state = "FirstArcPoint"
    /\ ArcPathNewPanics(t.center, t.r, t.theta0, ArcClickTheta1(t, p))

\* ArcPathTool::on_click: the tool afterwards (also when ArcPath::new aborted)
ArcOnClickTool(t, p) ==
  CASE t.state = "Start" ->
         [t EXCEPT !.state = "CenterPoint", !.center = into_point2(p)]
    [] t.state = "CenterPoint" ->
         [t EXCEPT !.state = "FirstArcPoint", !.p0 = into_point2(p),
                   !.theta0 = vector_angle(VSub(into_point2(p), t.center)),
                   !.r = Norm(VSub(into_point2(p), t.center))]
    [] t.state = "FirstArcPoint" -> [t EXCEPT !.state = "Start"]

\* ArcPathTool::on_click: what it returns when it does not abort, NoSeg for None
ArcOnClickReturn(t, p) ==
  IF t.state = "FirstArcPoint"
  THEN ArcPathNew(t.center, t.r, t.theta0, ArcClickTheta1(t, p))
  ELSE [kind |-> "none"]

\* ArcPathTool::on_input when the key G was pressed
ArcOnInput(t) == [t EXCEPT !.counterclockwise = ~t.counterclockwise]

\* Tool::on_click: the dispatch on the tool in use
ToolOnClickPanics(t, p) ==
  IF t.kind = "ArcPath" THEN ArcOnClickPanics(t, p) ELSE LineOnClickPanics(t, p)

ToolOnClickTool(t, p) ==
  IF t.kind = "ArcPath" THEN ArcOnClickTool(t, p) ELSE LineOnClickTool(t, p)

ToolOnClickReturn(t, p) ==
  IF t.kind = "ArcPath" THEN ArcOnClickReturn(t, p) ELSE LineOnClickReturn(t, p)

\* ------------------------------------------------------------------------
\* State
\* ------------------------------------------------------------------------

VARIABLES
  seg,        \* the segment last constructed (LinePath::new / ArcPath::new)
  segStatus,  \* "none" | "ok" | "aborted": how that construction ended
  sq,         \* the last query made on seg and what it returned
  sargs,      \* history: the arguments of the last segment constructor call
  build,      \* "debug" | "release": whether debug assertions are compiled in
  tin,        \* the segment list handed to the last Track construction
  track,      \* the ClosedPath value, when one exists
  tstatus,    \* "none" | "constructed" | "aborted"
  origin,     \* "none" | "new" | "deserialized": where track came from
  tq,         \* the last query made on track and what it returned
  sim,        \* the RobotSimulation
  simStatus,  \* "none" | "running" | "aborted": aborted once a step panicked
  pre,        \* history: the RobotSimulation as it was when the last step began
  ticks,      \* history: per completed step, its dt and what its
              \* calculate_control measured (error) and derived (deriv)
  rq,         \* the last query made on sim, what it returned and after how
              \* many steps it was made
  opt,        \* the RobotOptimizer: max_iter, dt and the shared path
  evals,      \* per evaluation of the batch: the call of evaluate_fitness, its
              \* locals (robot_sim, fitness, the loop counter) and, as
              \* history, the terms it read before each step
  collected,  \* history: the (candidate, fitness) pairs handed back so far
  graph,      \* the CurveGraph
  vt,         \* the call of valid_track: its argument, its locals, how it ended
  tool,       \* the editor's Tool: the LinePathTool or the ArcPathTool
  toolStatus, \* "none" | "ready" | "aborted": aborted once on_click panicked
  clicks      \* history: per click, its point, the tool's counterclockwise
              \* flag when it was made, and what on_click returned

segVars == <<seg, segStatus, sq, sargs>>
trackVars == <<build, tin, track, tstatus, origin, tq>>
simVars == <<sim, simStatus, pre, ticks, rq>>
fitVars == <<opt, evals, collected>>
graphVars == <<graph, vt>>
toolVars == <<tool, toolStatus, clicks>>
vars == <<seg, segStatus, sq, sargs, build, tin, track, tstatus, origin, tq,
          sim, simStatus, pre, ticks, rq,
          opt, evals, collected, graph, vt,
          tool, toolStatus, clicks>>

NoSeg == [kind |-> "none"]
NoQuery == [op |-> "none"]
NoTrack == [p0 |-> IPt(0, 0), subpaths |-> <<>>, starts |-> <<>>, length |-> 0]

NoCall == [status |-> "idle", node_indices |-> <<>>, next_node |-> 0,
           visited |-> {}, subpaths |-> <<>>, walk |-> <<>>]
GraphIdle == graph = CurveGraphNew /\ vt = NoCall
NoTool == [kind |-> "none"]
ToolIdle == tool = NoTool /\ toolStatus = "none" /\ clicks = <<>>
SegIdle == seg = NoSeg /\ segStatus = "none" /\ sq = NoQuery /\ sargs = NoSeg
TrackIdle ==
  /\ build = "debug" /\ tin = <<>> /\ track = NoTrack
  /\ tstatus = "none" /\ origin = "none" /\ tq = NoQuery
NoSim == [path |-> NoTrack]
\* the evaluations of a batch
NumEvals == 2
EvalIds == 1..NumEvals
NoEval == [status |-> "idle", cand |-> <<>>, sim |-> NoSim, fitness |-> 0, iter |-> 0,
           terms |-> <<>>, result |-> 0]
NoOpt == [max_iter |-> 0, dt |-> 0, path |-> NoTrack]
FitIdle == opt = NoOpt /\ evals = [c \in EvalIds |-> NoEval] /\ collected = {}
NoRq == [name |-> "none"]
SimIdle == sim = NoSim /\ simStatus = "none" /\ pre = NoSim /\ ticks = <<>> /\ rq = NoRq

\* ------------------------------------------------------------------------
\* Inputs of the segment operations
\* ------------------------------------------------------------------------

\* query points have integer coordinates in -MaxCoord..MaxCoord; lines run
\* between the points of LinePts
MaxCoord == 2
\* arc angles are the multiples k * PI/2, k in -1..MaxAngleK
MaxAngleK == 4
\* arc radii are 0..MaxRadius
MaxRadius == 2

LinePts == {IPt(0, 0), IPt(10, 0), IPt(0, 4), IPt(4, 3)}
ArcCenters == {IPt(0, 0)}
ArcRadii == {Num(r) : r \in 0..MaxRadius}
ArcAngles == {k * HALF_PI : k \in (-1)..MaxAngleK}
SegQueryPts ==
  {IPt(x, y) : x \in ((-MaxCoord)..MaxCoord) \cup {5}, y \in (-MaxCoord)..MaxCoord}

\* ------------------------------------------------------------------------
\* Segment operations
\* ------------------------------------------------------------------------

NewLine(p0, p1) ==
  /\ segStatus = "none"
  /\ IF LinePathNewPanics(p0, p1)
     THEN seg' = NoSeg /\ segStatus' = "aborted"
     ELSE seg' = LinePathNew(p0, p1) /\ segStatus' = "ok"
  /\ sargs' = [kind |-> "Line", p0 |-> p0, p1 |-> p1]
  /\ UNCHANGED <<sq, trackVars, simVars, fitVars, graphVars, toolVars>>

NewArc(center, r, theta0, theta1) ==
  /\ segStatus = "none"
  /\ IF ArcPathNewPanics(center, r, theta0, theta1)
     THEN seg' = NoSeg /\ segStatus' = "aborted"
     ELSE seg' = ArcPathNew(center, r, theta0, theta1) /\ segStatus' = "ok"
  /\ sargs' = [kind |-> "Arc", center |-> center, r |-> r,
               theta0 |-> theta0, theta1 |-> theta1]
  /\ UNCHANGED <<sq, trackVars, simVars, fitVars, graphVars, toolVars>>

\* a call of seg.sdf(p)
QuerySegSdf(p) ==
  /\ segStatus = "ok"
  /\ sq.op = "none"
  /\ sq' = [op |-> "sdf", p |-> p, res |-> SegSdf(seg, p)]
  /\ UNCHANGED <<seg, segStatus, sargs, trackVars, simVars, fitVars, graphVars, toolVars>>

\* a call of seg.point_projection_distance(seg.point_at(d)), d being j
\* quarters of the segment's length
QuerySegProjection(j) ==
  /\ segStatus = "ok"
  /\ sq.op = "none"
  /\ \E d \in {FDiv(FMul(SegLength(seg), Num(j)), Num(4))} :
       sq' = [op |-> "projection", d |-> d, p |-> SegPointAt(seg, d),
              res |-> SegPointProjectionDistance(seg, SegPointAt(seg, d))]
  /\ UNCHANGED <<seg, segStatus, sargs, trackVars, simVars, fitVars, graphVars, toolVars>>

SegNext ==
  \/ \E p0 \in LinePts, p1 \in LinePts : NewLine(p0, p1)
  \/ \E c \in ArcCenters, r \in ArcRadii, t0 \in ArcAngles, t1 \in ArcAngles :
       NewArc(c, r, t0, t1)
  \/ \E p \in SegQueryPts : QuerySegSdf(p)
  \/ \E j \in 0..4 : QuerySegProjection(j)

SegInit == SegIdle /\ TrackIdle /\ SimIdle /\ FitIdle /\ GraphIdle /\ ToolIdle

\* the segment constructors and the queries on one segment
SpecSeg == SegInit /\ [][SegNext]_vars

\* ------------------------------------------------------------------------
\* Inputs of the Track operations
\* ------------------------------------------------------------------------

\* two straights joined by two counterclockwise half circles
Stadium ==
  << new_line_path(0, 0, 2, 0), new_arc_path(2, 1, 1, -HALF_PI, HALF_PI),
     new_line_path(2, 2, 0, 2), new_arc_path(0, 1, 1, HALF_PI, 3 * HALF_PI) >>
\* the same shape run clockwise
StadiumCw ==
  << new_line_path(0, 0, 0, 2), new_arc_path(1, 2, 1, PI, 0),
     new_line_path(2, 2, 2, 0), new_arc_path(1, 0, 1, 0, -PI) >>
\* a three-quarter circle closed by two lines
Keyhole ==
  << new_arc_path(0, 0, 1, 0, 3 * HALF_PI), new_line_path(0, -1, 1, -1),
     new_line_path(1, -1, 1, 0) >>
Triangle ==
  << new_line_path(0, 0, 4, 0), new_line_path(4, 0, 4, 3), new_line_path(4, 3, 0, 0) >>
\* two half circles
Circle == << new_arc_path(0, 0, 1, 0, PI), new_arc_path(0, 0, 1, PI, TWO_PI) >>
\* a lens: two quarter-turn arcs of radius sqrt(2) about (0,-1) and (0,1),
\* meeting at (1,0) and (-1,0)
Lens ==
  << ArcPathNew(IPt(0, -1), FSqrt(Num(2)), PI \div 4, 3 * (PI \div 4)),
     ArcPathNew(IPt(0, 1), FSqrt(Num(2)), 5 * (PI \div 4), 7 * (PI \div 4)) >>
\* a triangle whose corners miss each other by half of epsilon
NearTriangle ==
  << LinePathNew(IPt(0, 0), IPt(4, 0)),
     LinePathNew(Pt(Num(4), epsilon \div 2), IPt(4, 3)),
     LinePathNew(IPt(4, 3), Pt(epsilon \div 2, 0)) >>
\* a triangle whose second side starts two epsilon away from the first side's end
GapTriangle ==
  << LinePathNew(IPt(0, 0), IPt(4, 0)),
     LinePathNew(Pt(Num(4), 2 * epsilon), IPt(4, 3)),
     LinePathNew(IPt(4, 3), IPt(0, 0)) >>
\* adjacent segments that do not close the loop
OpenPath == << new_line_path(0, 0, 4, 0), new_line_path(4, 0, 4, 3) >>
\* two segments that do not meet
Apart == << new_line_path(0, 0, 2, 0), new_line_path(2, 2, 0, 2) >>
Single == << new_line_path(0, 0, 4, 0) >>

\* two arcs of radius 0 around the origin
Pinched == << new_arc_path(0, 0, 0, 0, PI), new_arc_path(0, 0, 0, PI, TWO_PI) >>

ValidLists ==
  {Stadium, StadiumCw, Keyhole, Triangle, Circle, Lens, NearTriangle,
   predefined_subpaths}
InvalidLists == {<<>>, Single, Apart, OpenPath, GapTriangle}
SegLists == ValidLists \cup InvalidLists

\* query points of a track have integer coordinates in -1..MaxGrid
MaxGrid == 3
TrackQueryPts == {IPt(x, y) : x \in (-1)..MaxGrid, y \in (-1)..MaxGrid}
\* arclengths asked of point_at: the multiples of 1/2 up to MaxHalves halves
MaxHalves == 12
\* and whole laps added to them, up to MaxLaps
MaxLaps == 2
Arclengths == {h * (SCALE \div 2) : h \in 0..MaxHalves}

\* the fields a track description can carry for a segment list: the derived
\* fields ClosedPath::new would compute, or others
Descriptions(subpaths) ==
  IF Len(subpaths) = 0 THEN {NoTrack}
  ELSE LET f == ClosedPathFields(subpaths)
       IN {[p0 |-> p, subpaths |-> subpaths, starts |-> st, length |-> len] :
             p \in {f.p0, IPt(7, 7)},
             st \in {f.starts, [i \in 1..Len(subpaths) |-> 0]},
             len \in {f.length, Num(1)}}

\* ------------------------------------------------------------------------
\* Track operations
\* ------------------------------------------------------------------------

\* ClosedPath::new(subpaths)
TrackNew(subpaths) ==
  /\ tstatus = "none"
  /\ tin' = subpaths
  /\ origin' = "new"
  /\ IF ClosedPathNewPanics(build = "debug", subpaths)
     THEN track' = NoTrack /\ tstatus' = "aborted"
     ELSE track' = ClosedPathFields(subpaths) /\ tstatus' = "constructed"
  /\ UNCHANGED <<build, tq, segVars, simVars, fitVars, graphVars, toolVars>>

\* serde_json::from_str of a track description: the derived Deserialize of
\* ClosedPath fills the four fields from the description as they are
TrackDeserialize(desc) ==
  /\ tstatus = "none"
  /\ tin' = desc.subpaths
  /\ origin' = "deserialized"
  /\ track' = desc
  /\ tstatus' = "constructed"
  /\ UNCHANGED <<build, tq, segVars, simVars, fitVars, graphVars, toolVars>>

\* the derived fields are those of the segments, and there is a segment
Consistent(path) ==
  /\ Len(path.subpaths) >= 1
  /\ path = ClosedPathFields(path.subpaths)

\* a call of track.sdf(p)
QueryTrackSdf(p) ==
  /\ tstatus = "constructed" /\ Consistent(track)
  /\ tq.op = "none"
  /\ tq' = IF ClosedPathSdfPanics(track, p)
           THEN [op |-> "sdf", p |-> p, panic |-> TRUE, res |-> 0]
           ELSE [op |-> "sdf", p |-> p, panic |-> FALSE, res |-> ClosedPathSdf(track, p)]
  /\ UNCHANGED <<build, tin, track, tstatus, origin, segVars, simVars, fitVars, graphVars, toolVars>>

\* a call of track.point_at(d + k * track.length())
QueryTrackPointAt(d, k) ==
  /\ tstatus = "constructed" /\ Consistent(track)
  /\ tq.op = "none"
  /\ tq' = [op |-> "point_at", d |-> d, k |-> k,
            res |-> ClosedPathPointAt(track,
                       FAdd(d, FMul(Num(k), ClosedPathLength(track))))]
  /\ UNCHANGED <<build, tin, track, tstatus, origin, segVars, simVars, fitVars, graphVars, toolVars>>

\* a call of track.tangent_at(d + k * track.length())
QueryTrackTangentAt(d, k) ==
  /\ tstatus = "constructed" /\ Consistent(track)
  /\ tq.op = "none"
  /\ tq' = [op |-> "tangent_at", d |-> d, k |-> k,
            res |-> ClosedPathTangentAt(track,
                       FAdd(d, FMul(Num(k), ClosedPathLength(track))))]
  /\ UNCHANGED <<build, tin, track, tstatus, origin, segVars, simVars, fitVars, graphVars, toolVars>>

\* a call of track.point_projection_tangent(p); seg is the index of the
\* segment closest_subpath returned
QueryTrackProjectionTangent(p) ==
  /\ tstatus = "constructed" /\ Consistent(track)
  /\ tq.op = "none"
  /\ tq' = IF closest_subpath(track, p) = 0
           THEN [op |-> "projection_tangent", p |-> p, panic |-> TRUE,
                 seg |-> 0, res |-> Pt(0, 0)]
           ELSE [op |-> "projection_tangent", p |-> p, panic |-> FALSE,
                 seg |-> closest_subpath(track, p),
                 res |-> ClosedPathPointProjectionTangent(track, p)]
  /\ UNCHANGED <<build, tin, track, tstatus, origin, segVars, simVars, fitVars, graphVars, toolVars>>

\* a call of is_valid_closed_path(subpaths)
CheckValid(subpaths) ==
  /\ tstatus = "none"
  /\ tq.op = "none"
  /\ tq' = [op |-> "is_valid", subpaths |-> subpaths,
            res |-> is_valid_closed_path(subpaths)]
  /\ UNCHANGED <<build, tin, track, tstatus, origin, segVars, simVars, fitVars, graphVars, toolVars>>

TrackNext ==
  \/ \E l \in SegLists : TrackNew(l)
  \/ \E l \in SegLists : \E desc \in Descriptions(l) : TrackDeserialize(desc)
  \/ \E p \in TrackQueryPts : QueryTrackSdf(p)
  \/ \E d \in Arclengths, k \in 0..MaxLaps : QueryTrackPointAt(d, k)
  \/ \E d \in Arclengths, k \in 0..MaxLaps : QueryTrackTangentAt(d, k)
  \/ \E p \in TrackQueryPts : QueryTrackProjectionTangent(p)
  \/ \E l \in SegLists \cup {Pinched} : CheckValid(l)

TrackInit ==
  /\ SegIdle
  /\ SimIdle /\ FitIdle /\ GraphIdle /\ ToolIdle
  /\ build \in {"debug", "release"}
  /\ tin = <<>> /\ track = NoTrack
  /\ tstatus = "none" /\ origin = "none" /\ tq = NoQuery

\* the construction of a Track and the queries on it
SpecTrack == TrackInit /\ [][TrackNext]_vars

\* ------------------------------------------------------------------------
\* The simulation: construction and steps
\* ------------------------------------------------------------------------

\* at most MaxSteps steps are taken
MaxSteps == 3
\* the periods passed to step: 0, 1/20 and 1/10
Periods == {0, SCALE \div 20, SCALE \div 10}
Gains == {0, Num(1)}
Speeds == {Num(1)}
SimTracks == {Stadium, Triangle}
\* the robot starts at rest with heading 0.1, on the track's first point (as
\* the GUI and the optimizer place it) or half a unit beside it
StartStates(path) ==
  {<<path.p0.x + dx, path.p0.y + dy, SCALE \div 10, 0, 0, 0, 0>> :
     dx \in {0}, dy \in {0, SCALE \div 2}}

SimInit ==
  /\ SegIdle /\ TrackIdle /\ FitIdle /\ GraphIdle /\ ToolIdle
  /\ \E l \in SimTracks :
       LET path == ClosedPathFields(l) IN
       \E x0 \in StartStates(path), kp \in Gains, ki \in Gains, kd \in Gains,
          speed \in Speeds :
         sim = RobotSimulationNew(x0, kp, ki, kd, speed, path)
  /\ simStatus = "running"
  /\ pre = NoSim
  /\ ticks = <<>>
  /\ rq = NoRq

\* a call of step(dt)
Step(dt) ==
  /\ simStatus = "running"
  /\ Len(ticks) < MaxSteps
  /\ IF StepPanics(sim, dt)
     THEN /\ simStatus' = "aborted"
          /\ UNCHANGED <<sim, pre, ticks>>
     ELSE /\ sim' = SimStep(sim, dt)
          /\ pre' = sim
          /\ \E c \in {calculate_control(sim, dt)} :
               ticks' = Append(ticks, [dt |-> dt, error |-> c.error_estimate,
                                       deriv |-> c.deriv_error,
                                       calls |-> Rk4Calls(sim.integrator, dt, c.controls)])
          /\ UNCHANGED simStatus
  /\ UNCHANGED <<rq, segVars, trackVars, fitVars, graphVars, toolVars>>

SimNext == \E dt \in Periods : Step(dt)

\* a RobotSimulation on a valid track, stepped
SpecSim == SimInit /\ [][SimNext]_vars

\* the periods passed to step between queries: 0 and 1/10
QueryPeriods == {0, SCALE \div 10}

\* the speeds asked of the robot: forward and backward
QuerySpeeds == {Num(1), Num(-1)}

\* a simulation with all gains 1 on the stadium
QueryInit ==
  /\ SegIdle /\ TrackIdle /\ FitIdle /\ GraphIdle /\ ToolIdle
  /\ \E x0 \in StartStates(ClosedPathFields(Stadium)), speed \in QuerySpeeds :
       sim = RobotSimulationNew(x0, Num(1), Num(1), Num(1), speed,
                                ClosedPathFields(Stadium))
  /\ simStatus = "running"
  /\ pre = NoSim
  /\ ticks = <<>>
  /\ rq = NoRq

\* a call of the query q
Query(q) ==
  /\ simStatus = "running"
  /\ IF QueryPanics(q, sim)
     THEN /\ simStatus' = "aborted"
          /\ UNCHANGED <<sim, rq>>
     ELSE /\ rq' = [name |-> q, value |-> QueryValue(q, sim), at |-> Len(ticks)]
          /\ sim' = after_query(sim, q)
          /\ UNCHANGED simStatus
  /\ UNCHANGED <<pre, ticks, segVars, trackVars, fitVars, graphVars, toolVars>>

QueryNext ==
  \/ \E dt \in QueryPeriods : Step(dt)
  \/ \E q \in QueryNames : Query(q)

\* a RobotSimulation stepped and queried in any order
SpecQuery == QueryInit /\ [][QueryNext]_vars

\* ------------------------------------------------------------------------
\* The optimizer: a batch of fitness evaluations running side by side
\* ------------------------------------------------------------------------

\* the horizon max_iter is 0 or MaxIter
MaxIter == 2
Horizons == {0, MaxIter}
\* the period dt is 0 or 1/10
FitPeriods == {0, SCALE \div 10}
\* the optimizer runs on the predefined path
FitTracks == {predefined_subpaths}
\* candidates (kp, ki, kd, speed)
Candidates == {<<Num(2), Num(1), 0, Num(1)>>, <<Num(1), Num(1), Num(1), Num(2)>>}

FitInit ==
  /\ SegIdle /\ TrackIdle /\ SimIdle /\ GraphIdle /\ ToolIdle
  /\ \E n \in Horizons, dt \in FitPeriods, l \in FitTracks :
       opt = RobotOptimizerNew(n, dt, ClosedPathFields(l))
  /\ evals = [c \in EvalIds |-> NoEval]
  /\ collected = {}

\* evaluate_parallel(x) is called for evaluation c
EvalStart(c, cand) ==
  /\ evals[c].status = "idle"
  /\ evals' = [evals EXCEPT ![c] = evaluate_fitness_begin(cand, opt)]
  /\ UNCHANGED <<opt, collected, segVars, trackVars, simVars, graphVars, toolVars>>

\* evaluation c runs one iteration of its loop
EvalIterate(c) ==
  /\ evals[c].status = "running"
  /\ evals[c].iter < opt.max_iter
  /\ IF fitness_iteration_panics(evals[c])
     THEN evals' = [evals EXCEPT ![c].status = "aborted"]
     ELSE evals' = [evals EXCEPT ![c] = fitness_iteration(evals, c, opt)]
  /\ UNCHANGED <<opt, collected, segVars, trackVars, simVars, graphVars, toolVars>>

\* evaluation c leaves its loop and returns
EvalReturn(c) ==
  /\ evals[c].status = "running"
  /\ ~(evals[c].iter < opt.max_iter)
  /\ evals' = [evals EXCEPT ![c] = evaluate_fitness_end(evals[c])]
  /\ UNCHANGED <<opt, collected, segVars, trackVars, simVars, graphVars, toolVars>>

\* the value returned by evaluation c is handed back to the caller of
\* evaluate_parallel, and the thread is free for another call
EvalCollect(c) ==
  /\ evals[c].status = "returned"
  /\ collected' = collected \cup {[cand |-> evals[c].cand, fitness |-> evals[c].result]}
  /\ evals' = [evals EXCEPT ![c] = NoEval]
  /\ UNCHANGED <<opt, segVars, trackVars, simVars, graphVars, toolVars>>

FitNext ==
  \/ \E c \in EvalIds, cand \in Candidates : EvalStart(c, cand)
  \/ \E c \in EvalIds : EvalIterate(c)
  \/ \E c \in EvalIds : EvalReturn(c)
  \/ \E c \in EvalIds : EvalCollect(c)

\* a batch of concurrent fitness evaluations on one optimizer
SpecFit == FitInit /\ [][FitNext]_vars

\* ------------------------------------------------------------------------
\* The editor's graph: segments added, then a selection asked for its track
\* ------------------------------------------------------------------------

\* at most MaxEdges segments are added
MaxEdges == 3
\* a selection names at most MaxSel nodes
MaxSel == 3
\* a call of valid_track is followed for at most MaxWalk iterations
MaxWalk == 5
\* the segments drawn: the lines between three corner points
GraphPts == {IPt(0, 0), IPt(4, 0), IPt(4, 3)}
\* and one line that starts 0.05 above the corner (4, 0)
NearCorner == Pt(Num(4), SCALE \div 20)
GraphSegs ==
  {LinePathNew(q[1], q[2]) : q \in {r \in GraphPts \X GraphPts : r[1] # r[2]}}
    \cup {LinePathNew(NearCorner, IPt(4, 3))}
\* the selections over n nodes
Selections(n) == UNION {[1..k -> 1..n] : k \in 0..MaxSel}

GraphInit ==
  /\ SegIdle /\ SimIdle /\ FitIdle
  /\ build \in {"debug", "release"}
  /\ tin = <<>> /\ track = NoTrack
  /\ tstatus = "none" /\ origin = "none" /\ tq = NoQuery
  /\ graph = CurveGraphNew
  /\ vt = NoCall
  /\ ToolIdle

\* graph.add_subpath(subpath)
AddSubpath(subpath) ==
  /\ vt.status = "idle"
  /\ Len(graph.edges) < MaxEdges
  /\ graph' = add_subpath(graph, subpath)
  /\ UNCHANGED <<vt, segVars, trackVars, simVars, fitVars, toolVars>>

\* graph.valid_track(node_indices) is called
ValidTrackCall(node_indices) ==
  /\ vt.status = "idle"
  /\ vt' = valid_track_begin(node_indices)
  /\ UNCHANGED <<graph, segVars, trackVars, simVars, fitVars, toolVars>>

\* the call runs one iteration of its loop
ValidTrackIterate ==
  /\ vt.status = "running"
  /\ Len(vt.walk) < MaxWalk
  /\ vt' = valid_track_iteration(graph, vt, build = "debug")
  /\ UNCHANGED <<graph, segVars, trackVars, simVars, fitVars, toolVars>>

GraphNext ==
  \/ \E s \in GraphSegs : AddSubpath(s)
  \/ \E sel \in Selections(Len(graph.nodes)) : ValidTrackCall(sel)
  \/ ValidTrackIterate

\* the editor's graph built and asked for a track
SpecGraph == GraphInit /\ [][GraphNext]_vars

\* ------------------------------------------------------------------------
\* The editor's tools: clicks and key presses
\* ------------------------------------------------------------------------

\* at most MaxClicks clicks are made on a tool
MaxClicks == 4
\* the points clicked, in world coordinates
ClickPts == {IPt(0, 0), IPt(1, 0), IPt(2, 0), IPt(0, 1), IPt(0, -1)}

\* the line tool or the arc tool was chosen
ToolInit ==
  /\ SegIdle /\ TrackIdle /\ SimIdle /\ FitIdle /\ GraphIdle
  /\ tool \in {LinePathToolNew, ArcPathToolNew}
  /\ toolStatus = "ready"
  /\ clicks = <<>>

\* tool.on_click(p)
Click(p) ==
  /\ toolStatus = "ready"
  /\ Len(clicks) < MaxClicks
  /\ tool' = ToolOnClickTool(tool, p)
  /\ IF ToolOnClickPanics(tool, p)
     THEN /\ toolStatus' = "aborted"
          /\ clicks' = Append(clicks, [p |-> p, flag |-> tool.kind = "ArcPath" /\ tool.counterclockwise,
                                       panic |-> TRUE, ret |-> [kind |-> "none"]])
     ELSE /\ toolStatus' = "ready"
          /\ clicks' = Append(clicks, [p |-> p, flag |-> tool.kind = "ArcPath" /\ tool.counterclockwise,
                                       panic |-> FALSE, ret |-> ToolOnClickReturn(tool, p)])
  /\ UNCHANGED <<segVars, trackVars, simVars, fitVars, graphVars>>

\* tool.on_input with the key G pressed, on the arc tool
PressG ==
  /\ toolStatus = "ready"
  /\ tool.kind = "ArcPath"
  /\ tool' = ArcOnInput(tool)
  /\ UNCHANGED <<toolStatus, clicks, segVars, trackVars, simVars, fitVars, graphVars>>

ToolNext ==
  \/ \E p \in ClickPts : Click(p)
  \/ PressG

\* a drawing tool clicked at and its orientation key pressed, in any order
SpecTools == ToolInit /\ [][ToolNext]_vars

\* ------------------------------------------------------------------------
\* What the claims speak of, stated apart from the code
\* ------------------------------------------------------------------------

\* integer coordinates of a grid point
IX(p) == p.x \div SCALE
IY(p) == p.y \div SCALE

\* some segment does not start within epsilon of where the one before it ends
BrokenJoint(subpaths) ==
  \E i \in 2..Len(subpaths) :
    FGt(distance(SegFirstPoint(subpaths[i]), SegLastPoint(subpaths[i - 1])), epsilon)

\* the last segment does not end within epsilon of where the first one starts
BrokenClosure(subpaths) ==
  FGt(distance(SegLastPoint(subpaths[Len(subpaths)]), SegFirstPoint(subpaths[1])),
      epsilon)

\* a list from which no Track may be built
InvalidList(subpaths) ==
  \/ Len(subpaths) < 2
  \/ BrokenJoint(subpaths)
  \/ BrokenClosure(subpaths)

RECURSIVE SumLengths(_, _)
\* the sum of the lengths of the first n segments
SumLengths(subpaths, n) ==
  IF n = 0 THEN 0 ELSE FAdd(SumLengths(subpaths, n - 1), SegLength(subpaths[n]))

\* the derived fields of a Track agree with its segments
DerivedAgree(path) ==
  /\ Len(path.starts) = Len(path.subpaths)
  /\ \A i \in 1..Len(path.subpaths) : path.starts[i] = SumLengths(path.subpaths, i - 1)
  /\ path.length = SumLengths(path.subpaths, Len(path.subpaths))
  /\ path.p0 = SegFirstPoint(path.subpaths[1])

\* (C1) ClosedPath::new never yields a Track from a list with fewer than two
\* segments, with a joint wider than epsilon or with a closure wider than
\* epsilon: in every build the construction aborts and no value exists.
CE_C1_NewRejectsInvalid ==
  (origin = "new" /\ InvalidList(tin)) => (tstatus = "aborted" /\ track = NoTrack)

\* (C2) Every Track obtained by deserializing a description has at least two
\* segments, satisfies adjacency and closure, and has derived fields that agree
\* with its segments.
CE_C2_DeserializedValidated ==
  (origin = "deserialized" /\ tstatus = "constructed") =>
    (~InvalidList(track.subpaths) /\ DerivedAgree(track))

\* the Line of the spec's example
Line10 == new_line_path(0, 0, 10, 0)

\* twice the signed area of (p0, p1, p): positive when p is left of the
\* direction p0 -> p1
SideOf(l, p) ==
  (IX(l.p1) - IX(l.p0)) * (IY(p) - IY(l.p0)) - (IY(l.p1) - IY(l.p0)) * (IX(p) - IX(l.p0))

\* the foot of the perpendicular from p falls within the line
ProjectionInside(l, p) ==
  LET dx == IX(l.p1) - IX(l.p0)
      dy == IY(l.p1) - IY(l.p0)
      t == dx * (IX(p) - IX(l.p0)) + dy * (IY(p) - IY(l.p0))
  IN 0 <= t /\ t <= dx * dx + dy * dy

AxisAligned(l) == l.p0.x = l.p1.x \/ l.p0.y = l.p1.y

\* the distance of p from an axis-aligned line
AxisOffset(l, p) ==
  IF l.p0.y = l.p1.y THEN Abs(p.y - l.p0.y) ELSE Abs(p.x - l.p0.x)

\* (C3, as stated) For the Line (0,0) -> (10,0), signed_distance((5,2)) = 2.0 and
\* signed_distance((5,-2)) = -2.0; for a point projecting inside the line the
\* result is the perpendicular offset, positive on the side of (5,2) (the left
\* of the direction) and negative on the other side.
CE_C3_LineSdfPositiveLeft ==
  (sq.op = "sdf" /\ seg.kind = "Line" /\ ProjectionInside(seg, sq.p)) =>
    /\ (seg = Line10 /\ sq.p = IPt(5, 2)) => sq.res = Num(2)
    /\ (seg = Line10 /\ sq.p = IPt(5, -2)) => sq.res = Num(-2)
    /\ SideOf(seg, sq.p) > 0 => sq.res > 0
    /\ SideOf(seg, sq.p) < 0 => sq.res < 0
    /\ AxisAligned(seg) => Abs(sq.res) = AxisOffset(seg, sq.p)

\* (C3, amended) For the Line (0,0) -> (10,0), signed_distance((5,2)) = -2.0 and
\* signed_distance((5,-2)) = 2.0; for a point projecting inside the line the
\* result is the perpendicular offset, negative on the side of (5,2) (the left
\* of the direction), positive on the other side and zero on the line.
Thm_C3_LineSdfNegativeLeft ==
  (sq.op = "sdf" /\ seg.kind = "Line" /\ ProjectionInside(seg, sq.p)) =>
    /\ (seg = Line10 /\ sq.p = IPt(5, 2)) => sq.res = Num(-2)
    /\ (seg = Line10 /\ sq.p = IPt(5, -2)) => sq.res = Num(2)
    /\ SideOf(seg, sq.p) > 0 => (IsFin(sq.res) /\ sq.res < 0)
    /\ SideOf(seg, sq.p) < 0 => (IsFin(sq.res) /\ sq.res > 0)
    /\ SideOf(seg, sq.p) = 0 => sq.res = 0
    /\ AxisAligned(seg) => Abs(sq.res) = AxisOffset(seg, sq.p)

Wit_C3_LineSdfNegativeLeft ==
  /\ sq.op = "sdf" /\ seg = Line10
  /\ sq.p = IPt(5, 2) /\ sq.res = Num(-2)

\* the direction of p seen from c, in eighths of a turn, for p on one of the
\* eight rays from c along the axes and the diagonals (8 otherwise)
Eighth(c, p) ==
  LET dx == IX(p) - IX(c)
      dy == IY(p) - IY(c)
  IN IF dy = 0 /\ dx > 0 THEN 0
     ELSE IF dx = dy /\ dx > 0 THEN 1
     ELSE IF dx = 0 /\ dy > 0 THEN 2
     ELSE IF dx = -dy /\ dy > 0 THEN 3
     ELSE IF dy = 0 /\ dx < 0 THEN 4
     ELSE IF dx = dy /\ dx < 0 THEN 5
     ELSE IF dx = 0 /\ dy < 0 THEN 6
     ELSE IF dx = -dy /\ dx > 0 THEN 7
     ELSE 8

\* an angle that is a multiple of PI/2, in eighths of a turn
EighthsOf(theta) == 2 * (theta \div HALF_PI)

\* the direction e (eighths of a turn, taken modulo a full turn) lies between
\* theta0 and theta1 in the arc's rotational sense
AngularlyBetween(a, e) ==
  LET lo == IF a.theta0 < a.theta1 THEN EighthsOf(a.theta0) ELSE EighthsOf(a.theta1)
      hi == IF a.theta0 < a.theta1 THEN EighthsOf(a.theta1) ELSE EighthsOf(a.theta0)
  IN \E m \in (-2)..2 : lo <= e + 8 * m /\ e + 8 * m <= hi

\* (C4) For every Arc (any sweep, either orientation) and every point,
\* signed_distance is +infinity exactly when the point's angular position is
\* not between theta0 and theta1 in the arc's rotational sense; otherwise it is
\* distance(point, center) - r for counterclockwise arcs and r - distance for
\* clockwise arcs.
CE_C4_ArcSdfOwnership ==
  (/\ sq.op = "sdf" /\ seg.kind = "Arc" /\ seg.r > 0
   /\ Eighth(seg.center, sq.p) < 8) =>
    IF AngularlyBetween(seg, Eighth(seg.center, sq.p))
    THEN sq.res = (IF seg.theta1 > seg.theta0
                   THEN FSub(distance(sq.p, seg.center), seg.r)
                   ELSE FSub(seg.r, distance(sq.p, seg.center)))
    ELSE sq.res = PInf

\* (C5) Every Segment that is successfully constructed has length() > 0.
CE_C5_SegmentLengthPositive ==
  segStatus = "ok" => FGt(SegLength(seg), 0)

\* (C9) For every Track and every point p, Track.signed_distance(p) is one of
\* the per-segment signed distances, and no segment's signed distance has a
\* strictly smaller absolute value.
Thm_C9_TrackSdfIsMinimum ==
  tq.op = "sdf" =>
    /\ ~tq.panic
    /\ \E i \in 1..Len(track.subpaths) : tq.res = SegSdf(track.subpaths[i], tq.p)
    /\ \A j \in 1..Len(track.subpaths) :
         ~FLt(FAbs(SegSdf(track.subpaths[j], tq.p)), FAbs(tq.res))

\* the minimum is finite, is not the first segment's value, and another segment
\* lies strictly farther away
Wit_C9_TrackSdfIsMinimum ==
  /\ tq.op = "sdf" /\ ~tq.panic /\ IsFin(tq.res)
  /\ Len(track.subpaths) >= 3
  /\ FLt(FAbs(tq.res), FAbs(SegSdf(track.subpaths[1], tq.p)))
  /\ \E j \in 2..Len(track.subpaths) :
       /\ IsFin(SegSdf(track.subpaths[j], tq.p))
       /\ FLt(FAbs(tq.res), FAbs(SegSdf(track.subpaths[j], tq.p)))

\* (C10) For any valid Track, point_at(0) is the first segment's first point,
\* point_at(length()) is within epsilon of point_at(0), and
\* point_at(d + k * length()) = point_at(d) for every d >= 0 and integer k >= 0.
Thm_C10_PointAtClosedLoop ==
  (tq.op = "point_at" /\ ~InvalidList(track.subpaths)) =>
    /\ (tq.d = 0 /\ tq.k = 0) => tq.res = SegFirstPoint(track.subpaths[1])
    /\ (tq.d = 0 /\ tq.k = 1) =>
         FLe(distance(tq.res, SegFirstPoint(track.subpaths[1])), epsilon)
    /\ tq.res = ClosedPathPointAt(track, tq.d)
    /\ \E i \in 1..Len(track.subpaths) :
         \* the point the track reaches d after its start, found by walking
         \* the segments: segment i holds q = d mod length
         LET q == tq.d % track.length IN
         /\ SumLengths(track.subpaths, i - 1) <= q
         /\ q <= SumLengths(track.subpaths, i)
         /\ FLe(distance(tq.res,
                         SegPointAt(track.subpaths[i],
                                    q - SumLengths(track.subpaths, i - 1))),
                epsilon)

\* two whole laps were added to an arclength that lies in a later segment
Wit_C10_PointAtClosedLoop ==
  /\ tq.op = "point_at" /\ ~InvalidList(track.subpaths)
  /\ tq.k = 2 /\ tq.d > SegLength(track.subpaths[1]) /\ tq.d < track.length
  /\ tq.res # SegFirstPoint(track.subpaths[1])

\* (C6) For a RobotSimulation built on a valid Track with a finite initial
\* state, every call step(dt) in any sequence of calls returns normally,
\* whatever finite dt, gains and speed are used.
CE_C6_StepNeverAborts ==
  simStatus # "aborted"

\* the wheel commands of a tick whose error is e, integral i and derivative d
ControlsFrom(s, e, i, d) ==
  LET desired_dtheta == FAdd(FAdd(FMul(s.kp, e), FMul(s.ki, i)), FMul(s.kd, d))
      v == FMul(FDiv(FMul(ROBOT_SIDE_LENGTH, C2), ROBOT_WHEEL_RADIUS), desired_dtheta)
      um == FDiv(FMul(FMul(Num(2), s.speed), C2), ROBOT_WHEEL_RADIUS)
  IN <<FDiv(FSub(um, v), Num(2)), FDiv(FAdd(um, v), Num(2))>>

\* the period of the tick last completed
LastDt == ticks[Len(ticks)].dt

\* C7: within a completed step(dt) the controls are the ones computed from the
\* state at the start of that tick, the integrator has advanced by dt from its
\* value at the start of the tick with exactly those controls held, the state
\* is the integrator's, and the time has advanced by dt.
Thm_C7_TickOrder ==
  Len(ticks) >= 1 =>
    /\ sim.controls = calculate_control(pre, LastDt).controls
    /\ sim.integrator = Rk4Step(pre.integrator, LastDt, sim.controls)
    /\ sim.state = sim.integrator.x
    /\ sim.time = FAdd(pre.time, LastDt)
    /\ sim.integrator.t = FAdd(pre.integrator.t, LastDt)

\* a second or later tick whose controls differ from the tick before and move
\* the robot elsewhere than the earlier controls would have
Wit_C7_TickOrder ==
  /\ Len(ticks) >= 2
  /\ simStatus = "running"
  /\ VecFinite(sim.state)
  /\ sim.controls # pre.controls
  /\ sim.state # pre.state
  /\ sim.integrator # Rk4Step(pre.integrator, LastDt, pre.controls)

RECURSIVE LaggedSum(_)
\* the sum, in tick order, of error(k-1) * dt(k) over the ticks 2..n
LaggedSum(n) ==
  IF n <= 1 THEN 0
  ELSE FAdd(LaggedSum(n - 1), FMul(ticks[n - 1].error, ticks[n].dt))

\* the error of the tick before tick k, 0 before the first
ErrorBefore(k) == IF k = 1 THEN 0 ELSE ticks[k - 1].error

\* C8: after n >= 1 completed steps of a fresh simulation the integral is the
\* sum of each earlier tick's error times the following tick's period (0 after
\* the first step, the latest error never included), prev_error is the latest
\* error, and each tick's derivative is (its error - the error before) / its
\* period, with 0 before the first tick; the latest tick's controls are
\* computed from exactly these three.
Thm_C8_IntegralLag ==
  Len(ticks) >= 1 =>
    LET n == Len(ticks) IN
    /\ sim.int_error = LaggedSum(n)
    /\ (n = 1 => sim.int_error = 0)
    /\ sim.prev_error = ticks[n].error
    /\ ticks[n].error = theta_error_estimate(pre)
    /\ \A k \in 1..n :
         ticks[k].deriv = FDiv(FSub(ticks[k].error, ErrorBefore(k)), ticks[k].dt)
    /\ sim.controls = ControlsFrom(sim, ticks[n].error, sim.int_error, ticks[n].deriv)

\* three ticks of positive period with non-zero errors, where the integral is
\* finite, non-zero and differs from what including the latest error would give
Wit_C8_IntegralLag ==
  /\ Len(ticks) = 3
  /\ \A k \in 1..3 : ticks[k].dt > 0 /\ IsFin(ticks[k].error) /\ ticks[k].error # 0
  /\ IsFin(sim.int_error)
  /\ sim.int_error # 0
  /\ sim.int_error # FAdd(sim.int_error, FMul(ticks[3].error, ticks[3].dt))
  /\ sim.ki # 0

\* the constructor call was degenerate: a Line between equal endpoints or an
\* Arc with theta0 = theta1
DegenerateCall ==
  \/ sargs.kind = "Line" /\ sargs.p0 = sargs.p1
  \/ sargs.kind = "Arc" /\ sargs.theta0 = sargs.theta1

\* (C11) Constructing a Line whose endpoints are equal, or an Arc with
\* theta0 = theta1, aborts in the constructor: no Segment value exists
\* afterwards and nothing can be asked of it.
Thm_C11_DegenerateAborts ==
  DegenerateCall => (segStatus = "aborted" /\ seg = NoSeg /\ sq = NoQuery)

\* LinePath::new((4,3), (4,3)) was called and aborted
Wit_C11_DegenerateAborts ==
  /\ sargs.kind = "Line" /\ sargs.p0 = IPt(4, 3) /\ sargs.p1 = IPt(4, 3)
  /\ segStatus = "aborted"

\* the three quantities of a tick, read from the simulation s
TermsOf(s) ==
  [ve |-> robot_velocity_reward(s), e |-> robot_error(s), sdf |-> robot_sdf_to_path(s)]

\* (velocity_reward - w_e * squared_error - w_d * sdf^2) * dt
RewardOf(t, dt) ==
  FMul(FSub(FSub(t.ve, FMul(W0_fitness, t.e)), FMul(W1_fitness, FMul(t.sdf, t.sdf))), dt)

RECURSIVE RewardSum(_, _, _)
\* the sum of the rewards of the first n terms, in order
RewardSum(terms, n, dt) ==
  IF n = 0 THEN 0 ELSE FAdd(RewardSum(terms, n - 1, dt), RewardOf(terms[n], dt))

\* a candidate evaluated alone, before its first tick
SoloStart(cand, dt, path) ==
  [sim |-> RobotSimulationNew(x0_fitness, cand[1], cand[2], cand[3], cand[4], path),
   terms |-> <<>>, aborted |-> FALSE]

\* one more tick of a candidate evaluated alone: the three terms are read
\* from the simulation, then it is stepped; a tick that cannot read them aborts
SoloTick(r, dt) ==
  IF r.aborted \/ RobotSdfPanics(r.sim) \/ RobotProjectionTangentPanics(r.sim)
  THEN [r EXCEPT !.aborted = TRUE]
  ELSE [sim |-> SimStep(r.sim, dt), terms |-> Append(r.terms, TermsOf(r.sim)),
        aborted |-> FALSE]

RECURSIVE SoloTrajectory(_, _, _, _)
\* <<after 0 ticks, after 1 tick, ..., after n ticks>> of a candidate alone
SoloTrajectory(cand, dt, path, n) ==
  IF n = 0
  THEN <<SoloStart(cand, dt, path)>>
  ELSE Let(SoloTrajectory(cand, dt, path, n - 1), LAMBDA tr :
         Append(tr, SoloTick(tr[n], dt)))

\* the trajectories of every candidate alone, for every period and track
SoloRuns ==
  [cand \in Candidates, dt \in FitPeriods,
   path \in {ClosedPathFields(l) : l \in FitTracks} |->
     SoloTrajectory(cand, dt, path, MaxIter)]

\* where the candidate of evaluation c is after k ticks alone
SoloAfter(c, k) == SoloRuns[evals[c].cand, opt.dt, opt.path][k + 1]

\* (C12) evaluate_fitness with horizon N and period dt returns the sum over
\* its N ticks of (velocity_reward - w_e * squared_error - w_d * sdf^2) * dt,
\* the terms of tick k read from the simulation before its k-th step (the
\* first from the initial state); exactly N steps are performed, the state
\* after the last step contributes nothing, and N = 0 gives fitness 0.
Thm_C12_FitnessSum ==
  \A c \in EvalIds :
    evals[c].status = "returned" =>
      LET ev == evals[c]
          N == opt.max_iter
      IN /\ ev.iter = N /\ Len(ev.terms) = N
         /\ ~SoloAfter(c, N).aborted
         /\ ev.terms = SoloAfter(c, N).terms
         /\ ev.result = RewardSum(ev.terms, N, opt.dt)
         /\ ev.sim = SoloAfter(c, N).sim
         /\ (N = 0 => ev.result = 0)

\* an evaluation over the full horizon, with a positive period, returned a
\* finite non-zero fitness whose last term is not zero
Wit_C12_FitnessSum ==
  \E c \in EvalIds :
    /\ evals[c].status = "returned"
    /\ opt.max_iter = MaxIter /\ opt.dt > 0
    /\ IsFin(evals[c].result) /\ evals[c].result # 0
    /\ RewardOf(evals[c].terms[MaxIter], opt.dt) # 0

\* evaluation c of the batch has been started
Started(c) == evals[c].status # "idle"

\* (C13) Evaluations of a batch that run concurrently, their iterations
\* interleaved in any order, are each at every moment where the same candidate
\* evaluated alone is after as many iterations: the same simulation, the same
\* terms read and the same accumulated fitness, and on return the same
\* fitness; each simulation holds the optimizer's track, which stays as
\* constructed.
Thm_C13_ConcurrentEqualsSolo ==
  \A c \in EvalIds :
    Started(c) =>
      Let(SoloAfter(c, evals[c].iter), LAMBDA solo :
        /\ ~solo.aborted
        /\ evals[c].sim = solo.sim
        /\ evals[c].terms = solo.terms
        /\ evals[c].fitness = RewardSum(solo.terms, evals[c].iter, opt.dt)
        /\ evals[c].sim.path = opt.path
        /\ opt.path \in {ClosedPathFields(l) : l \in FitTracks}
        /\ (evals[c].status = "aborted" => SoloAfter(c, evals[c].iter + 1).aborted)
        /\ (evals[c].status = "returned" =>
              /\ evals[c].iter = opt.max_iter
              /\ evals[c].result = RewardSum(solo.terms, opt.max_iter, opt.dt)))

\* two evaluations of different candidates overlap: one has returned a
\* non-zero fitness over the full horizon while the other is inside its loop,
\* on a trajectory that is not the first one's
Wit_C13_ConcurrentEqualsSolo ==
  \E c, d \in EvalIds :
    /\ evals[c].status = "returned" /\ evals[d].status = "running"
    /\ evals[c].cand # evals[d].cand
    /\ opt.max_iter = MaxIter /\ opt.dt > 0
    /\ evals[d].iter > 0 /\ evals[d].iter < opt.max_iter
    /\ evals[c].result # 0
    /\ evals[d].sim # SoloAfter(c, evals[d].iter).sim

Thm_C15_QueriesReadOnly ==
  [][/\ (rq' # rq => (sim' = sim /\ pre' = pre /\ ticks' = ticks))
     /\ (sim' # sim =>
           /\ Len(ticks') = Len(ticks) + 1
           /\ rq' = rq
           /\ sim' = SimStep(sim, ticks'[Len(ticks')].dt))]_vars

\* the signed distance was asked after the first step and was not zero, and
\* two more steps were completed after it
Wit_C15_QueriesReadOnly ==
  /\ rq.name = "robot_sdf_to_path" /\ rq.at = 1 /\ rq.value # 0
  /\ Len(ticks) = 3
  /\ simStatus = "running"
  /\ sim.time > 0

\* (C16) The predefined closed path passes the validity check: it has 11
\* segments (at least two), every segment starts within epsilon of where the
\* one before it ends, the last one ends within epsilon of where the first one
\* starts, and ClosedPath::new accepts it in a debug build too.
Thm_C16_PredefinedValid ==
  (origin = "new" /\ tin = predefined_subpaths) =>
    /\ tstatus = "constructed"
    /\ track.subpaths = predefined_subpaths
    /\ is_valid_closed_path(tin)
    /\ Len(tin) = 11
    /\ \A i \in 2..Len(tin) :
         FLe(distance(SegFirstPoint(tin[i]), SegLastPoint(tin[i - 1])), epsilon)
    /\ FLe(distance(SegFirstPoint(tin[1]), SegLastPoint(tin[Len(tin)])), epsilon)

\* predefined_closed_path() was called in a debug build
Wit_C16_PredefinedValid ==
  /\ origin = "new" /\ tin = predefined_subpaths /\ build = "debug"
  /\ tstatus = "constructed" /\ Len(track.starts) = 11

\* no node occurs twice in the sequence w
NoRepeat(w) == \A i, j \in 1..Len(w) : i # j => w[i] # w[j]

\* (C17) valid_track returns a path or None in every case: following the
\* edges from node_indices[0] it makes its iterations on selected nodes and on
\* none of them twice, so it has returned after at most as many iterations as
\* there are selected nodes.
CE_C17_ValidTrackReturns ==
  vt.status = "running" =>
    /\ NoRepeat(vt.walk)
    /\ Len(vt.walk) < Len(vt.node_indices)

\* the arclength asked by the last point_at or tangent_at, reduced to a lap
AskedInLap == FMod(FAdd(tq.d, FMul(Num(tq.k), track.length)), track.length)

\* the last segment whose cumulative start arclength is <= q
OwnerSeg(subpaths, q) ==
  CHOOSE i \in 1..Len(subpaths) :
    /\ SumLengths(subpaths, i - 1) <= q
    /\ \A j \in (i + 1)..Len(subpaths) : SumLengths(subpaths, j - 1) > q

\* (C18) point_at(d) and tangent_at(d) of a valid Track evaluate the last
\* segment whose cumulative start is <= d mod length, at the offset of
\* d mod length from that start; where d mod length is exactly the start of a
\* segment, tangent_at is that segment's tangent at offset 0.
CE_C18_OwnerIsLastStartBelow ==
  (tq.op \in {"point_at", "tangent_at"} /\ ~InvalidList(track.subpaths)) =>
    LET q == AskedInLap
        i == OwnerSeg(track.subpaths, q)
        x == q - SumLengths(track.subpaths, i - 1)
    IN /\ tq.op = "point_at" =>
            FLe(distance(tq.res, SegPointAt(track.subpaths[i], x)), epsilon)
       /\ tq.op = "tangent_at" =>
            FLe(distance(tq.res, SegTangentAt(track.subpaths[i], x)), epsilon)

\* what the rounding of the scalars may add to a projection distance: 1/20
ProjTol == SCALE \div 20

\* (C19) On every Line and every Arc of positive length (either orientation,
\* any sweep below a full turn) and for every d in [0, length],
\* projection_distance(point_at(d)) is d.
CE_C19_ProjectionOfPointAt ==
  (/\ sq.op = "projection" /\ FGt(SegLength(seg), 0)
   /\ (seg.kind = "Arc" => FLt(FAbs(FSub(seg.theta1, seg.theta0)), TWO_PI))) =>
    FLe(FAbs(FSub(sq.res, sq.d)), ProjTol)

\* at least two segments, every segment's first point at a distance <= epsilon
\* from the last point of the one before it, and the first segment's first
\* point at a distance <= epsilon from the last segment's last point
JoinedAndClosed(subpaths) ==
  /\ Len(subpaths) >= 2
  /\ \A i \in 2..Len(subpaths) :
       FLe(distance(SegFirstPoint(subpaths[i]), SegLastPoint(subpaths[i - 1])), epsilon)
  /\ FLe(distance(SegFirstPoint(subpaths[1]), SegLastPoint(subpaths[Len(subpaths)])),
         epsilon)

\* (C20) is_valid_closed_path(segments) returns true exactly when the list
\* has at least two segments, every joint is at most epsilon wide and the
\* closure is at most epsilon wide, and false in every other case.
CE_C20_ValidIffJoinedAndClosed ==
  tq.op = "is_valid" => (tq.res <=> JoinedAndClosed(tq.subpaths))

\* the smaller of the squared distances of p from the two endpoints of l
NearerEndSq(l, p) ==
  LET d0 == (IX(p) - IX(l.p0)) * (IX(p) - IX(l.p0)) + (IY(p) - IY(l.p0)) * (IY(p) - IY(l.p0))
      d1 == (IX(p) - IX(l.p1)) * (IX(p) - IX(l.p1)) + (IY(p) - IY(l.p1)) * (IY(p) - IY(l.p1))
  IN IF d0 < d1 THEN d0 ELSE d1

\* the magnitude of a scalar in hundredths, truncated
Hundredths(a) == (Abs(a) * 100) \div SCALE

\* (C21) For a Line and a point whose projection onto the line's direction is
\* < 0 or > length, signed_distance has the magnitude of the distance to the
\* nearer endpoint (compared in hundredths) and the sign of the
\* perpendicular cross-product offset (negative left of the direction, positive
\* right of it); for the line (0,0) -> (10,0) the magnitude at (-1,0) is 1.0.
Thm_C21_OutsideIsEndpointDistance ==
  (sq.op = "sdf" /\ seg.kind = "Line" /\ ~ProjectionInside(seg, sq.p)) =>
    /\ IsFin(sq.res)
    /\ Hundredths(sq.res) * Hundredths(sq.res) <= NearerEndSq(seg, sq.p) * 10000
    /\ NearerEndSq(seg, sq.p) * 10000 < (Hundredths(sq.res) + 1) * (Hundredths(sq.res) + 1)
    /\ SideOf(seg, sq.p) > 0 => sq.res < 0
    /\ SideOf(seg, sq.p) < 0 => sq.res > 0
    /\ (seg = Line10 /\ sq.p = IPt(-1, 0)) => Abs(sq.res) = Num(1)

Wit_C21_OutsideIsEndpointDistance ==
  /\ sq.op = "sdf" /\ seg = Line10
  /\ sq.p = IPt(-1, 0) /\ Abs(sq.res) = Num(1)

\* (C22) Track.projection_tangent(p) is tangent_at(projection_distance(p)) of
\* the segment closest_segment(p) chose, and that segment is the one whose
\* signed distance Track.signed_distance(p) returns: the first of the segments
\* of least absolute signed distance, also on ties.
Thm_C22_ProjectionTangentOfClosest ==
  tq.op = "projection_tangent" =>
    /\ tq.panic <=> ClosedPathSdfPanics(track, tq.p)
    /\ ~tq.panic =>
         /\ tq.seg \in 1..Len(track.subpaths)
         /\ tq.res = SegTangentAt(track.subpaths[tq.seg],
                        SegPointProjectionDistance(track.subpaths[tq.seg], tq.p))
         /\ FAbs(SegSdf(track.subpaths[tq.seg], tq.p)) = FAbs(ClosedPathSdf(track, tq.p))
         /\ SegSdf(track.subpaths[tq.seg], tq.p) = ClosedPathSdf(track, tq.p)
         /\ \A j \in 1..Len(track.subpaths) :
              /\ ~FLt(FAbs(SegSdf(track.subpaths[j], tq.p)),
                      FAbs(SegSdf(track.subpaths[tq.seg], tq.p)))
              /\ j < tq.seg => FGt(FAbs(SegSdf(track.subpaths[j], tq.p)),
                                   FAbs(SegSdf(track.subpaths[tq.seg], tq.p)))

\* two segments of different direction are equally close and the first is chosen
Wit_C22_ProjectionTangentOfClosest ==
  /\ tq.op = "projection_tangent" /\ ~tq.panic
  /\ \E j \in 1..Len(track.subpaths) :
       /\ j > tq.seg
       /\ FAbs(SegSdf(track.subpaths[j], tq.p)) = FAbs(SegSdf(track.subpaths[tq.seg], tq.p))
       /\ IsFin(SegSdf(track.subpaths[j], tq.p))
       /\ SegTangentAt(track.subpaths[j], SegPointProjectionDistance(track.subpaths[j], tq.p))
            # tq.res

\* the calls of f made by the tick last completed
LastCalls == ticks[Len(ticks)].calls

\* the slope f returned for the i-th call of the tick last completed
SlopeOf(i) == robot_dynamics(LastCalls[i].t, LastCalls[i].x, LastCalls[i].u)

\* (C23) One Rk4 step(dt, u) evaluates the derivative function exactly four
\* times, every time with the same control u, at the times t, t + dt/2,
\* t + dt/2, t + dt and the states x, x + dt*k1/2, x + dt*k2/2, x + dt*k3, then
\* sets x to x + dt*(k1 + 2*k2 + 2*k3 + k4)/6 and t to t + dt.
Thm_C23_Rk4FourStages ==
  Len(ticks) >= 1 =>
    /\ Len(LastCalls) = 4
    /\ \A i \in 1..4 : LastCalls[i].u = sim.controls
    /\ LastCalls[1].t = pre.integrator.t
    /\ LastCalls[2].t = FAdd(pre.integrator.t, FDiv(LastDt, Num(2)))
    /\ LastCalls[3].t = LastCalls[2].t
    /\ LastCalls[4].t = FAdd(pre.integrator.t, LastDt)
    /\ LastCalls[1].x = pre.integrator.x
    /\ LastCalls[2].x =
         VecAdd(pre.integrator.x, VecDiv(VecScale(LastDt, SlopeOf(1)), Num(2)))
    /\ LastCalls[3].x =
         VecAdd(pre.integrator.x, VecDiv(VecScale(LastDt, SlopeOf(2)), Num(2)))
    /\ LastCalls[4].x = VecAdd(pre.integrator.x, VecScale(LastDt, SlopeOf(3)))
    /\ sim.integrator.x =
         VecAdd(pre.integrator.x,
                VecDiv(VecScale(LastDt,
                         VecAdd(VecAdd(VecAdd(SlopeOf(1), VecScale(Num(2), SlopeOf(2))),
                                       VecScale(Num(2), SlopeOf(3))), SlopeOf(4))),
                       Num(6)))
    /\ sim.integrator.t = FAdd(pre.integrator.t, LastDt)

\* a tick of positive period under controls that are not zero, whose four
\* slopes are not all the same and which moved the state
Wit_C23_Rk4FourStages ==
  /\ Len(ticks) >= 1 /\ simStatus = "running"
  /\ LastDt > 0
  /\ VecFinite(sim.state)
  /\ sim.controls # <<0, 0>>
  /\ SlopeOf(1) # SlopeOf(2) /\ SlopeOf(2) # SlopeOf(3) /\ SlopeOf(3) # SlopeOf(4)
  /\ sim.integrator.x # pre.integrator.x

\* the nodes visited before the i-th iteration of the running call
VisitedBefore(i) == {vt.walk[j] : j \in 1..(i - 1)}

\* (C24) valid_track terminates for every graph and every selection.  What an
\* iteration does is decided by the node it is made on and the visited set, so
\* a call that ends never begins an iteration on a node and visited set on
\* which an earlier iteration of the same call began.
CE_C24_ValidTrackTerminates ==
  vt.status = "running" =>
    \A i \in 1..Len(vt.walk) :
      ~(vt.walk[i] = vt.next_node /\ VisitedBefore(i) = vt.visited)

\* (C25) Every closed path valid_track returns satisfies is_valid_closed_path:
\* the segments taken from the graph meet within epsilon and the loop closes
\* within epsilon.
CE_C25_ReturnedTrackIsValid ==
  vt.status = "some" => is_valid_closed_path(vt.subpaths)

\* the lookup that reference_point and reference_tangent make in the state
\* queried: first_subpath_dist(speed * time)
ReferenceLookup == first_subpath_dist(sim.path, FMul(sim.speed, get_time(sim)))

\* (C26) For every arclength passed to the Track's point_at or tangent_at
\* (speed * time for any speed, negative ones too) the lookup selects an index
\* inside the segment list and an offset x with 0 <= x <= that segment's
\* length.
CE_C26_LookupWithinSegment ==
  (rq.name \in {"reference_point", "reference_tangent"} /\ rq.at = Len(ticks)) =>
    /\ ReferenceLookup.i \in 1..Len(sim.path.subpaths)
    /\ FGe(ReferenceLookup.x, 0)
    /\ FLe(ReferenceLookup.x, SegLength(sim.path.subpaths[ReferenceLookup.i]))

\* (C27) For every valid Track, tracks made only of arcs included, and every
\* finite point, Track.signed_distance returns a finite value: some segment
\* claims the point.
CE_C27_TrackSdfFinite ==
  (tq.op = "sdf" /\ is_valid_closed_path(track.subpaths) /\ PtFinite(tq.p)) =>
    /\ ~tq.panic
    /\ IsFin(tq.res)

RECURSIVE DtSum(_)
\* the sum of the periods of the first n ticks, added in tick order
DtSum(n) == IF n = 0 THEN 0 ELSE FAdd(DtSum(n - 1), ticks[n].dt)

\* (C28) After any sequence of step calls the simulation's copies agree with
\* the integrator: its state is the integrator's state, its time is the
\* integrator's time, and both times are the sum of all periods passed to
\* step (0 for a fresh simulation).
Thm_C28_CachesAgree ==
  simStatus # "none" =>
    /\ sim.state = sim.integrator.x
    /\ sim.time = sim.integrator.t
    /\ sim.time = DtSum(Len(ticks))
    /\ Len(ticks) = 0 => sim.time = 0

\* three steps of periods that are not all the same have moved the robot
Wit_C28_CachesAgree ==
  /\ simStatus = "running" /\ Len(ticks) = 3
  /\ ticks[1].dt # ticks[2].dt /\ ticks[3].dt > 0
  /\ sim.time > 0
  /\ VecFinite(sim.state)
  /\ sim.state # pre.state

\* the number of clicks made
NClicks == Len(clicks)

\* (C29) For every sequence of clicks on the line tool, on_click returns None
\* on each odd-numbered click and a Line from the previous click's point to
\* this click's point on each even-numbered click; the tool is in Start after
\* every even-numbered click and in OnePoint after every odd-numbered one.
CE_C29_LineToolAlternates ==
  (tool.kind = "LinePath" /\ NClicks >= 1) =>
    /\ ~clicks[NClicks].panic
    /\ NClicks % 2 = 1 =>
         (clicks[NClicks].ret.kind = "none" /\ tool.state = "OnePoint")
    /\ NClicks % 2 = 0 =>
         /\ clicks[NClicks].ret.kind = "Line"
         /\ clicks[NClicks].ret.p0 = clicks[NClicks - 1].p
         /\ clicks[NClicks].ret.p1 = clicks[NClicks].p
         /\ tool.state = "Start"

\* (C30) For every sequence of clicks and G presses on the arc tool, the
\* state cycles Start -> CenterPoint -> FirstArcPoint -> Start, on_click
\* returns a segment exactly on every third click, and the Arc returned has
\* its center at the first click of the three, the distance from the first to
\* the second as its radius, and the orientation (theta1 - theta0 > 0) of the
\* tool's counterclockwise flag at the third click.
CE_C30_ArcToolCycles ==
  (tool.kind = "ArcPath" /\ NClicks >= 1) =>
    /\ ~clicks[NClicks].panic
    /\ tool.state = (CASE NClicks % 3 = 1 -> "CenterPoint"
                       [] NClicks % 3 = 2 -> "FirstArcPoint"
                       [] OTHER -> "Start")
    /\ NClicks % 3 # 0 => clicks[NClicks].ret.kind = "none"
    /\ NClicks % 3 = 0 =>
         /\ clicks[NClicks].ret.kind = "Arc"
         /\ clicks[NClicks].ret.center = clicks[NClicks - 2].p
         /\ clicks[NClicks].ret.r = distance(clicks[NClicks - 2].p, clicks[NClicks - 1].p)
         /\ FGt(FSub(clicks[NClicks].ret.theta1, clicks[NClicks].ret.theta0), 0)
              = clicks[NClicks].flag

=========================================================================
